---- MODULE Spec2Model ----
(***************************************************************************)
(* Master Store (DataFetcher.smart_update) and Source Router               *)
(* (DataFetcher.fetch_data) of src/core/data_fetcher.py.                    *)
(*                                                                         *)
(* Time is counted in seconds.  The bars of the provider of the Master     *)
(* Store are 8 hours apart, so that one day is three bars and the UTC ->   *)
(* Asia/Kuala_Lumpur shift of _standardize_timezone is one bar.            *)
(* A row is [ts |-> tick, v |-> value]; v stands for the OHLCV values of   *)
(* the bar.  A symbol, a timeframe and a file name are sequences of        *)
(* one-character strings, so that the f-string of smart_update is a real   *)
(* concatenation.                                                          *)
(***************************************************************************)
EXTENDS Integers, Sequences, FiniteSets, TLC

VARIABLES
    store,      \* data/store: file -> content
    caseFold,   \* the file system of data/store takes names that differ by case
                \* only for one file (NTFS, APFS, FAT) or does not (ext4)
    feed,       \* the rows the provider holds
    lastError,  \* DataFetcher.last_error
    call,       \* the last whole call: arguments, branch, answer
    ncalls,     \* calls begun
    pc,         \* where each concurrent smart_update stands
    args,       \* its arguments
    existing,   \* its existing_df
    combined,   \* its combined_df
    log,        \* the writes of the concurrent calls, in order
    published,  \* bars the provider has published since the start
    probe       \* one call of a function of the pipeline: arguments and result

vars == <<store, caseFold, feed, lastError, call, ncalls, pc, args, existing, combined, log,
          published, probe>>

\* ------------------------------------------------------------------ bounds
MaxTime == 5      \* provider timestamps are bars 0..MaxTime
MaxFeed == 2      \* rows the provider holds at one time
MaxValue == 2     \* distinct OHLCV values of a bar
MaxCalls == 2     \* calls of update / fetch in one behaviour
MaxPublish == 1   \* bars the provider publishes while calls are running

\* --------------------------------------------------------- program constants
OneDay == 86400   \* timedelta(days=1), in seconds
KLOffset == 28800 \* UTC+8, in seconds
LookbackDays == 365

Bar == KLOffset   \* seconds from one bar of the provider to the next

Times == {Bar * k : k \in 0..MaxTime}
Values == 1..MaxValue
Rows == [ts : Times, v : Values]

RECURSIVE SeqsUpTo(_, _)
SeqsUpTo(S, n) ==
    IF n = 0 THEN {<<>>}
    ELSE LET shorter == SeqsUpTo(S, n - 1)
         IN  shorter \cup {Append(s, x) : s \in {t \in shorter : Len(t) = n - 1}, x \in S}

\* The values are interchangeable: a feed is taken up to their renaming, its
\* first row holding value 1.
Feeds == {s \in SeqsUpTo(Rows, MaxFeed) : s # <<>> => s[1].v = 1}

\* ------------------------------------------------------------ configuration
TIMEFRAME_MAP ==
    { <<"1","m">>, <<"5","m">>, <<"1","5","m">>, <<"1","h">>,
      <<"1","d">>, <<"1","w">>, <<"1","M">> }

YfAssets == {"Malaysia Stock", "US Stock", "Futures - Global"}
TvAsset == "Bursa Futures (TV)"
CryptoAsset == "Crypto"
KnownAssets == YfAssets \cup {TvAsset, CryptoAsset}

\* ----------------------------------------------------------------- helpers
TsOf(s) == {s[i].ts : i \in 1..Len(s)}

MaxTs(s) == CHOOSE t \in TsOf(s) : \A u \in TsOf(s) : u <= t

InRange(s, lo, hi) == SelectSeq(s, LAMBDA r : lo <= r.ts /\ r.ts <= hi)

Since(s, lo) == SelectSeq(s, LAMBDA r : lo <= r.ts)

UpTo(s, hi) == SelectSeq(s, LAMBDA r : r.ts <= hi)

StrictlyAscending(s) == \A i \in 1..Len(s) : \A j \in 1..Len(s) : i < j => s[i].ts < s[j].ts

Ok(rows, strat) == [ok |-> TRUE, rows |-> rows, err |-> "", strat |-> strat]

Fail(err, strat) == [ok |-> FALSE, rows |-> <<>>, err |-> err, strat |-> strat]

\* ---------------------------------------------------------------- provider
(* What an upstream provider answers to one request.  The provider is a   *)
(* black box holding the rows of feed: it raises, answers nothing, or      *)
(* answers some of its rows, in its own order.  The answer is Honest when  *)
(* it is exactly the rows of the requested range.                          *)
RaiseReplies ==
    { [kind |-> "raise", rows |-> <<>>, err |-> e] : e \in {"network", "other"} }

NoneReply == [kind |-> "none", rows |-> <<>>, err |-> ""]

RowsReply(rows) == [kind |-> "rows", rows |-> rows, err |-> ""]

RECURSIVE SubSeqs(_)
SubSeqs(s) ==
    IF s = <<>> THEN {<<>>}
    ELSE LET rest == SubSeqs(Tail(s))
         IN  rest \cup {<<Head(s)>> \o t : t \in rest}

ProviderReplies == RaiseReplies \cup {NoneReply} \cup {RowsReply(t) : t \in SubSeqs(feed)}

Honest(reply, start_date, end_date) == reply = RowsReply(InRange(feed, start_date, end_date))

StrategyOf(asset_type) ==
    IF asset_type \in YfAssets THEN "yf"
    ELSE IF asset_type = TvAsset THEN "tv"
    ELSE IF asset_type = CryptoAsset THEN "ccxt"
    ELSE "none"

\* ------------------------------------------------- classification of errors
(* An exception is its type and the marks its message carries: "keyword"   *)
(* for any of the network_error_keywords, and the phrases the except       *)
(* blocks look for.  The messages the strategies build themselves are in   *)
(* Chinese and carry none of the English keywords.  The category of the    *)
(* error that leaves a strategy is the branch of the except block that     *)
(* raised it: "network", "nodata", "granularity", "asset", or "other" for  *)
(* the last branch, which wraps the raw message.                           *)
Exc(type, marks) == [type |-> type, marks |-> marks]

\* what the provider raised: a message with a network keyword, or without;
\* an exception whose type name alone holds a keyword; messages that hold
\* the phrase of another branch as well
ProviderExc(reply) ==
    CASE reply.err = "network" -> Exc("Exception", {"keyword"})
      [] reply.err = "network type" -> Exc("ConnectionError", {})
      [] reply.err = "network, no data" -> Exc("Exception", {"keyword", "No data found"})
      [] reply.err = "network, minute" -> Exc("Exception", {"keyword", "minute"})
      [] reply.err = "no data" -> Exc("Exception", {"No data found"})
      [] reply.err = "minute" -> Exc("Exception", {"minute"})
      [] OTHER -> Exc("Exception", {})

\* keyword.lower() in error_type.lower() for one of network_error_keywords
TypeNameHasKeyword(type) == type \in {"ConnectionError", "TimeoutError", "URLError"}

\* self.TIMEFRAME_MAP[timeframe] of a timeframe that is no key
KeyErrorExc == Exc("KeyError", {})

\* the except block of _fetch_stock_futures
ClassifyStockFutures(e) ==
    IF e.type = "TypeError" /\ "NoneType" \in e.marks THEN "network"
    ELSE IF "keyword" \in e.marks \/ TypeNameHasKeyword(e.type) THEN "network"
    ELSE IF "No data found" \in e.marks \/ "No data returned" \in e.marks THEN "nodata"
    ELSE IF "minute" \in e.marks THEN "granularity"
    ELSE IF "Asset may not exist" \in e.marks THEN "asset"
    ELSE "other"

\* the except block of _fetch_crypto
ClassifyCrypto(e) ==
    IF "keyword" \in e.marks \/ TypeNameHasKeyword(e.type) THEN "network" ELSE "other"

\* the except block of _fetch_tradingview: only the message is searched for
\* keywords; its own two no-data messages are raised again as they are
ClassifyTradingview(e) ==
    IF "keyword" \in e.marks THEN "network"
    ELSE IF "zhao bu dao shuju" \in e.marks \/ "zhiding riqi fanwei" \in e.marks THEN "nodata"
    ELSE "other"

\* -------------------------------------------------------------- strategies
\* _fetch_stock_futures: start and end are handed to the provider; the rows
\* it answers are not filtered again.  Every raise is inside the try block.
FetchStockFutures(timeframe, reply) ==
    IF timeframe \notin TIMEFRAME_MAP
      THEN Fail(ClassifyStockFutures(KeyErrorExc), "yf")
    ELSE IF reply.kind = "raise"
      THEN Fail(ClassifyStockFutures(ProviderExc(reply)), "yf")
    ELSE IF reply.kind = "none"
      THEN Fail(ClassifyStockFutures(Exc("Exception", {"wangluo lianjie shibai"})), "yf")
    ELSE IF reply.rows = <<>>
      THEN Fail(ClassifyStockFutures(Exc("ValueError",
                                         {"No data returned", "Asset may not exist"})), "yf")
    ELSE Ok(reply.rows, "yf")

\* _fetch_crypto: load_markets comes before the timeframe is looked up;
\* since = start is handed to the provider; the answer is cut at end_date
\* only.
FetchCrypto(timeframe, end_date, reply) ==
    IF reply.kind = "raise"
      THEN Fail(ClassifyCrypto(ProviderExc(reply)), "ccxt")
    ELSE IF timeframe \notin TIMEFRAME_MAP
      THEN Fail(ClassifyCrypto(KeyErrorExc), "ccxt")
    ELSE IF reply.kind = "none" \/ reply.rows = <<>>
      THEN Fail(ClassifyCrypto(Exc("Exception", {"huoqu bu dao shuju"})), "ccxt")
    ELSE IF UpTo(reply.rows, end_date) = <<>>
      THEN Fail(ClassifyCrypto(Exc("Exception", {"zhiding riqi fanwei"})), "ccxt")
    ELSE Ok(UpTo(reply.rows, end_date), "ccxt")

\* _fetch_tradingview: the answer is cut to [start_date, end_date].
FetchTradingview(timeframe, start_date, end_date, reply) ==
    IF timeframe \notin TIMEFRAME_MAP
      THEN Fail(ClassifyTradingview(Exc("ValueError", {"bu zhichi de shijian lidu"})), "tv")
    ELSE IF reply.kind = "raise"
      THEN Fail(ClassifyTradingview(ProviderExc(reply)), "tv")
    ELSE IF reply.kind = "none" \/ reply.rows = <<>>
      THEN Fail(ClassifyTradingview(Exc("Exception", {"zhao bu dao shuju"})), "tv")
    ELSE IF InRange(reply.rows, start_date, end_date) = <<>>
      THEN Fail(ClassifyTradingview(Exc("Exception", {"zhiding riqi fanwei"})), "tv")
    ELSE Ok(InRange(reply.rows, start_date, end_date), "tv")

(* A timestamp is the wall-clock time it shows, in seconds; a timestamp     *)
(* that carries a zone has the field off, the offset of that zone from UTC *)
(* in seconds.                                                             *)
HasZone(r) == "off" \in DOMAIN r

\* the end of standardize_dataframe: Date becomes the string
\* '%Y-%m-%d %H:%M:%S' of the wall-clock time; a zone is not written
DateToString(rows) == [i \in 1..Len(rows) |-> [ts |-> rows[i].ts, v |-> rows[i].v]]

\* StandardizeTimezone without the shift
StandardizeTimezoneKeepsUtc(rows) ==
    [i \in 1..Len(rows) |-> [ts |-> rows[i].ts, v |-> rows[i].v]]

\* _standardize_timezone: a timestamp without zone is taken as UTC; the
\* instant is shown in Asia/Kuala_Lumpur and the zone is removed.
StandardizeTimezone(rows) ==
    [i \in 1..Len(rows) |->
        [ts |-> (IF HasZone(rows[i]) THEN rows[i].ts - rows[i].off ELSE rows[i].ts) + KLOffset,
         v |-> rows[i].v]]

\* df['Date'].dt.hour and df['Date'].dt.minute
Hour(ts) == (ts \div 3600) % 24

Minute(ts) == (ts \div 60) % 60

\* is_lunch_break of _filter_lunch_break
IsLunchBreak(ts) ==
    \/ Hour(ts) = 12 /\ Minute(ts) > 30
    \/ Hour(ts) = 13
    \/ Hour(ts) = 14 /\ Minute(ts) < 30

\* the asset classes _filter_lunch_break filters
LunchAssets == {"Malaysia Stock", "Futures - Global"}

\* FilterLunchBreak with both ends of the window closed (12:30 - 14:30)
FilterLunchBreakClosedWindow(rows, asset_type) ==
    IF asset_type \notin LunchAssets THEN rows
    ELSE SelectSeq(rows, LAMBDA r :
             ~(\/ Hour(r.ts) = 12 /\ Minute(r.ts) >= 30
               \/ Hour(r.ts) = 13
               \/ Hour(r.ts) = 14 /\ Minute(r.ts) <= 30))

\* _filter_lunch_break
FilterLunchBreak(rows, asset_type) ==
    IF asset_type \notin LunchAssets THEN rows
    ELSE SelectSeq(rows, LAMBDA r : ~IsLunchBreak(r.ts))

\* Dispatch with the equities strategy as the default branch
DispatchDefaultsToStocks(asset_type, timeframe, start_date, end_date, reply) ==
    IF asset_type = TvAsset
      THEN FetchTradingview(timeframe, start_date, end_date, reply)
    ELSE IF asset_type = CryptoAsset
      THEN FetchCrypto(timeframe, end_date, reply)
    ELSE FetchStockFutures(timeframe, reply)

\* the router of fetch_data: one strategy per asset class, or ValueError
Dispatch(asset_type, timeframe, start_date, end_date, reply) ==
    IF asset_type \in YfAssets
      THEN FetchStockFutures(timeframe, reply)
    ELSE IF asset_type = TvAsset
      THEN FetchTradingview(timeframe, start_date, end_date, reply)
    ELSE IF asset_type = CryptoAsset
      THEN FetchCrypto(timeframe, end_date, reply)
    ELSE Fail("Unknown asset type", "none")

\* FetchDataFilter with the session filter before the timezone step
FetchDataFilterFirst(asset_type, timeframe, start_date, end_date, reply, filter_lunch) ==
    LET raw == Dispatch(asset_type, timeframe, start_date, end_date, reply)
    IN  IF ~raw.ok THEN raw
        ELSE IF raw.rows = <<>> THEN Fail("No data found", raw.strat)
        ELSE LET named == DateToString(raw.rows)
                 open == IF filter_lunch THEN FilterLunchBreak(named, asset_type) ELSE named
             IN  Ok(StandardizeTimezone(open), raw.strat)

\* fetch_data: the strategy, then standardize_dataframe, _standardize_timezone
\* and, if filter_lunch, _filter_lunch_break
FetchDataFilter(asset_type, timeframe, start_date, end_date, reply, filter_lunch) ==
    LET raw == Dispatch(asset_type, timeframe, start_date, end_date, reply)
    IN  IF ~raw.ok THEN raw
        ELSE IF raw.rows = <<>> THEN Fail("No data found", raw.strat)
        ELSE LET named == DateToString(raw.rows)
                 local == StandardizeTimezone(named)
             IN  Ok(IF filter_lunch THEN FilterLunchBreak(local, asset_type) ELSE local,
                    raw.strat)

\* FetchData with the session filter on
FetchDataSessionFiltered(asset_type, timeframe, start_date, end_date, reply) ==
    FetchDataFilter(asset_type, timeframe, start_date, end_date, reply, TRUE)

\* fetch_data as smart_update calls it: filter_lunch keeps its default, False
FetchData(asset_type, timeframe, start_date, end_date, reply) ==
    FetchDataFilter(asset_type, timeframe, start_date, end_date, reply, FALSE)

\* self.last_error after fetch_data
LastErrorAfter(out) == IF out.ok THEN "None" ELSE out.err

\* ------------------------------------------------------------ Master Store
None == <<>>      \* start_date = None; a given start_date t is <<t>>

\* FileName without the timeframe
FileNameOfSymbol(symbol, timeframe) == symbol \o <<".parquet">>

\* filename = f"{symbol}_{timeframe}.parquet"
FileName(symbol, timeframe) == symbol \o <<"_">> \o timeframe \o <<".parquet">>

\* os.path.join(store_dir, filename) names a file of store_dir itself only
\* if filename holds no path separator; only store_dir is created.
InStoreDir(filename) == \A i \in 1..Len(filename) : filename[i] # "/"

\* The file that os.path.join(store_dir, filename) opens: the code passes the
\* name as it is; which names are one file is the file system's rule.
Lower(c) == CASE c = "M" -> "m" [] c = "X" -> "x" [] c = "B" -> "b" [] c = "U" -> "u"
              [] OTHER -> c

Fold(filename) == [k \in 1..Len(filename) |-> Lower(filename[k])]

Path(filename) == IF caseFold THEN Fold(filename) ELSE filename

Absent == [state |-> "absent", rows |-> <<>>]

Unreadable == [state |-> "corrupt", rows |-> <<>>]

Stored(rows) == [state |-> "ok", rows |-> rows]

\* FullStart that always takes the default year
FullStartDefaultYear(start_date, end_date) == end_date - LookbackDays * OneDay

\* start_date of the full download
FullStart(start_date, end_date) ==
    IF start_date = None THEN end_date - LookbackDays * OneDay ELSE start_date[1]

\* incremental_start = last_date + timedelta(days=1)
IncrementalStart(existing_df) == MaxTs(existing_df) + OneDay

\* drop_duplicates with keep='first'
RECURSIVE DropDuplicatesKeepFirst(_)
DropDuplicatesKeepFirst(s) ==
    IF s = <<>> THEN <<>>
    ELSE LET front == SubSeq(s, 1, Len(s) - 1)
         IN  IF s[Len(s)].ts \in TsOf(front)
               THEN DropDuplicatesKeepFirst(front)
               ELSE DropDuplicatesKeepFirst(front) \o <<s[Len(s)]>>

\* drop_duplicates(subset=['Date'], keep='last')
RECURSIVE DropDuplicatesKeepLast(_)
DropDuplicatesKeepLast(s) ==
    IF s = <<>> THEN <<>>
    ELSE IF Head(s).ts \in TsOf(Tail(s))
         THEN DropDuplicatesKeepLast(Tail(s))
         ELSE <<Head(s)>> \o DropDuplicatesKeepLast(Tail(s))

\* sort_values('Date'): ascending, rows already in order keep their place
RECURSIVE SortValues(_)
SortValues(s) ==
    IF s = <<>> THEN <<>>
    ELSE LET front == SortValues(SubSeq(s, 1, Len(s) - 1))
             r == s[Len(s)]
         IN  SelectSeq(front, LAMBDA x : x.ts <= r.ts) \o <<r>>
               \o SelectSeq(front, LAMBDA x : x.ts > r.ts)

\* concat, drop_duplicates, sort_values, reset_index of the incremental path
MergeDelta(existing_df, new_df) ==
    SortValues(DropDuplicatesKeepLast(existing_df \o new_df))

\* WriteStore that leaves the file as it is
WriteStoreSkipped(st, filename, rows) == st

\* WriteStore that merges the rows into what the file holds at the write
WriteStoreMerging(st, filename, rows) ==
    [st EXCEPT ![filename] =
        Stored(SortValues(DropDuplicatesKeepLast(
                   (IF st[filename].state = "ok" THEN st[filename].rows ELSE <<>>) \o rows)))]

\* combined_df.to_parquet(filepath): the whole file is replaced
WriteStore(st, filename, rows) == [st EXCEPT ![filename] = Stored(rows)]

\* the branch smart_update takes on what it finds on disk
Plan(content, end_date) ==
    IF content.state = "absent" THEN "first"
    ELSE IF content.state = "corrupt" THEN "fallback"
    ELSE IF IncrementalStart(content.rows) > end_date THEN "nofetch"
    ELSE "delta"

(* smart_update as a function of the file's content, the arguments and the *)
(* provider's replies to the delta request (r1) and to the full-range      *)
(* request (r2).  path names the branch that ended the call.               *)
SmartUpdate(content, symbol, asset_type, timeframe, start_date, end_date, r1, r2) ==
    LET plan == Plan(content, end_date)
        new == FetchData(asset_type, timeframe, IncrementalStart(content.rows), end_date, r1)
        full == FetchData(asset_type, timeframe, FullStart(start_date, end_date), end_date, r2)
        writable == InStoreDir(FileName(symbol, timeframe))
        fullRange == <<FullStart(start_date, end_date), end_date>>
        base == [path |-> plan, raised |-> FALSE, ret |-> <<>>, wrote |-> FALSE,
                 delta |-> <<>>, strats |-> <<>>, ranges |-> <<>>,
                 last_error |-> lastError]
        viaFull(b) ==
            LET c == [b EXCEPT !.strats = Append(@, full.strat),
                               !.ranges = Append(@, fullRange),
                               !.last_error = LastErrorAfter(full)]
            IN  IF ~full.ok THEN [c EXCEPT !.raised = TRUE]
                ELSE IF ~writable THEN [c EXCEPT !.raised = TRUE]
                ELSE [c EXCEPT !.ret = full.rows, !.wrote = TRUE]
    IN  CASE plan = "nofetch" -> [base EXCEPT !.ret = content.rows]
          [] plan = "delta" /\ new.ok ->
                [base EXCEPT !.path = "merge", !.ret = MergeDelta(content.rows, new.rows),
                             !.wrote = TRUE, !.delta = new.rows,
                             !.strats = <<new.strat>>,
                             !.ranges = <<<<IncrementalStart(content.rows), end_date>>>>,
                             !.last_error = LastErrorAfter(new)]
          [] plan = "delta" /\ ~new.ok ->
                viaFull([base EXCEPT !.path = "deltafail", !.strats = <<new.strat>>,
                           !.ranges = <<<<IncrementalStart(content.rows), end_date>>>>])
          [] OTHER -> viaFull(base)

\* the file written whatever way the call ended
StoreAfterAlwaysSaved(st, filename, out) == WriteStore(st, filename, out.ret)

\* the store after a call: to_parquet is the last statement before the return,
\* reached only when no fetch on the way raised
StoreAfter(st, filename, out) ==
    IF out.wrote THEN WriteStore(st, filename, out.ret) ELSE st

\* ------------------------------------------------------------------ inputs
D1 == <<"1","d">>
H1 == <<"1","h">>
Min1 == <<"1","m">>
Mon1 == <<"1","M">>
Y1 == <<"1","y">>   \* offered by the timeframe combo box, not in TIMEFRAME_MAP

Instrument(symbol, timeframe, asset_type) ==
    [symbol |-> symbol, timeframe |-> timeframe, asset_type |-> asset_type]

Instruments ==
    { Instrument(<<"X">>, D1, "US Stock"),
      Instrument(<<"X">>, D1, "Malaysia Stock"),
      Instrument(<<"X">>, D1, "Futures - Global"),
      Instrument(<<"X">>, H1, TvAsset),
      Instrument(<<"B","/","U">>, D1, CryptoAsset),
      Instrument(<<"X">>, D1, "Forex"),
      Instrument(<<"X">>, Y1, "US Stock") }

\* one instrument per retrieval strategy
UpdateInstruments ==
    {i \in Instruments : i.asset_type \in {"US Stock", TvAsset, CryptoAsset}
                           /\ i.timeframe \in TIMEFRAME_MAP}

\* the keys of the concurrent updates: one symbol, by the minute and by the month
ConcInstruments ==
    { Instrument(<<"X">>, Min1, "US Stock"),
      Instrument(<<"X">>, Mon1, "US Stock") }

AllInstruments == Instruments \cup ConcInstruments

Files == {FileName(i.symbol, i.timeframe) : i \in AllInstruments}
             \cup {Fold(FileName(i.symbol, i.timeframe)) : i \in AllInstruments}

FileOf(i) == Path(FileName(i.symbol, i.timeframe))

StartDates == {None, <<Bar>>}

EndDates == {Bar * (MaxTime - 1), Bar * MaxTime}

\* what the last call was given, found, did and answered
NoCall ==
    [op |-> "none", file |-> <<>>, asset_type |-> "", timeframe |-> <<>>,
     start_date |-> None, end_date |-> 0, path |-> "", raised |-> FALSE, ret |-> <<>>,
     wrote |-> FALSE, delta |-> <<>>, strats |-> <<>>, ranges |-> <<>>,
     r1 |-> NoneReply, r2 |-> NoneReply, pre |-> Absent, post |-> Absent,
     honest |-> TRUE]

NoProbe == [op |-> "none"]

Procs == {1, 2}

Idle == [p \in Procs |-> "idle"]

NoArgs == [inst |-> Instrument(<<>>, <<>>, ""), start_date |-> None, end_date |-> 0]

\* -------------------------------------------------- sequential specification
\* No two instruments of the sequential calls differ by case only, so the
\* file system's rule changes nothing for them; it is fixed here.
Init ==
    /\ store = [f \in Files |-> Absent]
    /\ caseFold = FALSE
    /\ feed \in Feeds
    /\ lastError = "None"
    /\ call = NoCall
    /\ ncalls = 0
    /\ pc = Idle
    /\ args = [p \in Procs |-> NoArgs]
    /\ existing = [p \in Procs |-> <<>>]
    /\ combined = [p \in Procs |-> <<>>]
    /\ log = <<>>
    /\ published = 0
    /\ probe = NoProbe

\* One whole call of smart_update.
Update(i, start_date, end_date) ==
    /\ ncalls < MaxCalls
    /\ LET f == FileOf(i)
           lo1 == IF Plan(store[f], end_date) = "delta"
                    THEN IncrementalStart(store[f].rows) ELSE 0
           lo2 == FullStart(start_date, end_date)
           plan == Plan(store[f], end_date)
           asked1 == IF plan = "delta" THEN ProviderReplies ELSE {NoneReply}
           asked2(r1) ==
               IF \/ plan \in {"first", "fallback"}
                  \/ plan = "delta" /\ ~FetchData(i.asset_type, i.timeframe, lo1, end_date, r1).ok
                 THEN ProviderReplies ELSE {NoneReply}
       IN  \E r1 \in asked1 : \E r2 \in asked2(r1) :
             \E out \in {SmartUpdate(store[f], i.symbol, i.asset_type, i.timeframe,
                                     start_date, end_date, r1, r2)} :
             LET honest1 == Honest(r1, lo1, end_date)
                 honest2 == Honest(r2, lo2, end_date)
             IN  /\ store' = StoreAfter(store, f, out)
                 /\ lastError' = out.last_error
                 /\ call' = [op |-> "update", file |-> f, asset_type |-> i.asset_type,
                             timeframe |-> i.timeframe,
                             start_date |-> start_date, end_date |-> end_date,
                             path |-> out.path, raised |-> out.raised, ret |-> out.ret,
                             wrote |-> out.wrote, delta |-> out.delta,
                             strats |-> out.strats, ranges |-> out.ranges,
                             r1 |-> r1, r2 |-> r2, pre |-> store[f], post |-> store'[f],
                             honest |-> CASE out.path \in {"first", "fallback"} -> honest2
                                          [] out.path = "merge" -> honest1
                                          [] out.path = "deltafail" -> honest1 /\ honest2
                                          [] OTHER -> TRUE]
    /\ ncalls' = ncalls + 1
    /\ UNCHANGED <<probe, caseFold, feed, pc, args, existing, combined, log, published>>

\* One whole call of fetch_data.
Fetch(i, start_date, end_date) ==
    /\ ncalls < MaxCalls
    /\ \E r \in IF StrategyOf(i.asset_type) = "none" THEN {NoneReply} ELSE ProviderReplies :
         \E out \in {FetchData(i.asset_type, i.timeframe, start_date, end_date, r)} :
             /\ lastError' = LastErrorAfter(out)
             /\ call' = [NoCall EXCEPT !.op = "fetch", !.file = FileOf(i),
                           !.asset_type = i.asset_type, !.timeframe = i.timeframe,
                           !.start_date = <<start_date>>, !.r1 = r,
                           !.ranges = <<<<start_date, end_date>>>>,
                           !.end_date = end_date, !.raised = ~out.ok, !.ret = out.rows,
                           !.strats = IF out.strat = "none" THEN <<>> ELSE <<out.strat>>]
    /\ ncalls' = ncalls + 1
    /\ UNCHANGED <<probe, caseFold, store, feed, pc, args, existing, combined, log, published>>

\* A stored file becomes unreadable (truncated, overwritten by another tool).
Damage(f) ==
    /\ ncalls < MaxCalls
    /\ store[f].state = "ok"
    /\ store' = [store EXCEPT ![f] = Unreadable]
    /\ UNCHANGED <<probe, caseFold, feed, lastError, call, ncalls, pc, args, existing, combined, log, published>>

Next ==
    \/ \E i \in UpdateInstruments, s \in StartDates, e \in EndDates : Update(i, s, e)
    \/ \E i \in Instruments, e \in EndDates : Fetch(i, Bar, e)
    \/ \E f \in Files : Damage(f)

Spec == Init /\ [][Next]_vars

\* -------------------------------------------------- concurrent specification
(* Two calls of smart_update run at once, each in its own FetchWorker with *)
(* its own DataFetcher (worker.py: self.fetcher = DataFetcher()), so that  *)
(* last_error is not shared; data/store is.  A call is split where it      *)
(* touches the disk or the provider: the read of the file, the delta       *)
(* fetch, the full-range fetch, the write.  Nothing in smart_update holds  *)
(* a lock across these.  The locals of a call that has ended are cleared.  *)
\* The store a run starts from: no file, or the record a first download left.
ConcInit ==
    /\ feed \in Feeds
    /\ caseFold \in BOOLEAN
    /\ \E t \in SubSeqs(feed) :
         store = [f \in Files |->
                    IF f = Path(FileName(<<"X">>, Min1)) /\ t # <<>>
                      THEN Stored(StandardizeTimezone(t)) ELSE Absent]
    /\ lastError = "None"
    /\ call = NoCall
    /\ ncalls = 0
    /\ pc = Idle
    /\ args = [p \in Procs |-> NoArgs]
    /\ existing = [p \in Procs |-> <<>>]
    /\ combined = [p \in Procs |-> <<>>]
    /\ log = <<>>
    /\ published = 0
    /\ probe = NoProbe

MyFile(p) == FileOf(args[p].inst)

\* smart_update is called
Begin(p, i, start_date, end_date) ==
    /\ pc[p] = "idle"
    /\ ncalls < MaxCalls
    /\ ncalls' = ncalls + 1
    /\ args' = [args EXCEPT ![p] = [inst |-> i, start_date |-> start_date,
                                    end_date |-> end_date]]
    /\ pc' = [pc EXCEPT ![p] = "check"]
    /\ existing' = [existing EXCEPT ![p] = <<>>]
    /\ combined' = [combined EXCEPT ![p] = <<>>]
    /\ UNCHANGED <<probe, caseFold, store, feed, lastError, call, log, published>>

\* os.path.exists and pd.read_parquet, up to the choice of the branch
Read(p) ==
    /\ pc[p] = "check"
    /\ LET plan == Plan(store[MyFile(p)], args[p].end_date)
       IN  /\ pc' = [pc EXCEPT ![p] = CASE plan = "nofetch" -> "idle"
                                        [] plan = "delta" -> "delta"
                                        [] OTHER -> "full"]
           /\ existing' = [existing EXCEPT ![p] =
                             IF plan = "delta" THEN store[MyFile(p)].rows ELSE <<>>]
           /\ combined' = combined
           /\ args' = IF plan = "nofetch" THEN [args EXCEPT ![p] = NoArgs] ELSE args
    /\ UNCHANGED <<probe, caseFold, store, feed, lastError, call, ncalls, log, published>>

\* the fetch_data of the incremental path, and the merge
FetchDelta(p) ==
    /\ pc[p] = "delta"
    /\ \E r \in ProviderReplies :
         \E new \in {FetchData(args[p].inst.asset_type, args[p].inst.timeframe,
                               IncrementalStart(existing[p]), args[p].end_date, r)} :
             /\ IF new.ok
                  THEN /\ combined' = [combined EXCEPT ![p] =
                                         [merged |-> TRUE, delta |-> new.rows,
                                          honest |-> Honest(r, IncrementalStart(existing[p]),
                                                            args[p].end_date),
                                          rows |-> MergeDelta(existing[p], new.rows)]]
                       /\ pc' = [pc EXCEPT ![p] = "write"]
                       /\ existing' = existing
                  ELSE /\ combined' = combined
                       /\ pc' = [pc EXCEPT ![p] = "full"]
                       /\ existing' = [existing EXCEPT ![p] = <<>>]
    /\ UNCHANGED <<probe, caseFold, store, feed, lastError, call, ncalls, args, log, published>>

\* the fetch_data of the full download (first time, or in the except branch)
FetchFull(p) ==
    /\ pc[p] = "full"
    /\ \E r \in ProviderReplies :
         \E full \in {FetchData(args[p].inst.asset_type, args[p].inst.timeframe,
                                FullStart(args[p].start_date, args[p].end_date),
                                args[p].end_date, r)} :
             /\ IF full.ok
                  THEN /\ combined' = [combined EXCEPT ![p] =
                                         [merged |-> FALSE, delta |-> full.rows,
                                          honest |-> Honest(r, FullStart(args[p].start_date,
                                                                         args[p].end_date),
                                                            args[p].end_date),
                                          rows |-> full.rows]]
                       /\ pc' = [pc EXCEPT ![p] = "write"]
                       /\ existing' = existing
                       /\ args' = args
                  ELSE /\ combined' = combined
                       /\ pc' = [pc EXCEPT ![p] = "idle"]
                       /\ existing' = [existing EXCEPT ![p] = <<>>]
                       /\ args' = [args EXCEPT ![p] = NoArgs]
    /\ UNCHANGED <<probe, caseFold, store, feed, lastError, call, ncalls, log, published>>

\* combined_df.to_parquet(filepath)
Write(p) ==
    /\ pc[p] = "write"
    /\ store' = WriteStore(store, MyFile(p), combined[p].rows)
    /\ log' = Append(log, [proc |-> p, inst |-> args[p].inst, file |-> MyFile(p), existing |-> existing[p],
                           merged |-> combined[p].merged, delta |-> combined[p].delta,
                           honest |-> combined[p].honest,
                           before |-> store[MyFile(p)], after |-> store'[MyFile(p)]])
    /\ pc' = [pc EXCEPT ![p] = "idle"]
    /\ existing' = [existing EXCEPT ![p] = <<>>]
    /\ combined' = [combined EXCEPT ![p] = <<>>]
    /\ args' = [args EXCEPT ![p] = NoArgs]
    /\ UNCHANGED <<probe, caseFold, feed, lastError, call, ncalls, published>>

\* The provider publishes a new bar, later than those it holds; it holds the
\* latest MaxFeed bars.
Publish(r) ==
    /\ published < MaxPublish
    /\ \A t \in TsOf(feed) : t < r.ts
    /\ published' = published + 1
    /\ feed' = IF Len(feed) < MaxFeed THEN Append(feed, r) ELSE Append(Tail(feed), r)
    /\ UNCHANGED <<probe, caseFold, store, lastError, call, ncalls, pc, args, existing, combined, log>>

ConcNext ==
    \/ \E p \in Procs, i \in ConcInstruments : Begin(p, i, None, Bar * MaxTime)
    \/ \E p \in Procs : Read(p)
    \/ \E p \in Procs : FetchDelta(p)
    \/ \E p \in Procs : FetchFull(p)
    \/ \E p \in Procs : Write(p)
    \/ \E r \in Rows : Publish(r)

SpecConc == ConcInit /\ [][ConcNext]_vars

\* ------------------------------------------- specification of single calls
(* One call of one function of the pipeline on arguments of second         *)
(* resolution; probe keeps the arguments and the result.                   *)
MaxRaw == 2       \* rows of one provider answer, of one table

HMS(h, m, sec) == h * 3600 + m * 60 + sec

\* wall-clock times the provider stamps its rows with; with the shift of
\* eight hours the first six lie around the ends of the midday closure
RawClock ==
    { HMS(4, 30, 0), HMS(4, 30, 59), HMS(4, 31, 0), HMS(5, 0, 0),
      HMS(6, 29, 59), HMS(6, 30, 0), HMS(13, 0, 0), HMS(20, 0, 0) }

\* the zones of the provider's timestamps: UTC, UTC-5, UTC+8
ZoneOffsets == {0, 0 - HMS(5, 0, 0), KLOffset}

RawRows ==
    {[ts |-> t, v |-> 1] : t \in RawClock}
        \cup {[ts |-> t, off |-> o, v |-> 1] : t \in RawClock, o \in ZoneOffsets}

\* exceptions of the providers beyond the two of RaiseReplies
ExcReplies ==
    { [kind |-> "raise", rows |-> <<>>, err |-> e] :
        e \in {"network type", "network, no data", "network, minute", "no data", "minute"} }

RawReplies ==
    RaiseReplies \cup ExcReplies \cup {NoneReply}
        \cup {RowsReply(t) : t \in SeqsUpTo(RawRows, MaxRaw)}

AssetClasses == KnownAssets \cup {"Forex"}

ProbeStart == 0

ProbeEnd == HMS(13, 0, 0)

PureInit ==
    /\ store = [f \in Files |-> Absent]
    /\ caseFold = FALSE
    /\ feed = <<>>
    /\ lastError = "None"
    /\ call = NoCall
    /\ ncalls = 0
    /\ pc = Idle
    /\ args = [p \in Procs |-> NoArgs]
    /\ existing = [p \in Procs |-> <<>>]
    /\ combined = [p \in Procs |-> <<>>]
    /\ log = <<>>
    /\ published = 0
    /\ probe = NoProbe

\* fetch_data(asset_type, code, timeframe, start_date, end_date, filter_lunch)
FetchDataCall ==
    /\ probe = NoProbe
    /\ \E asset_type \in AssetClasses, filter_lunch \in BOOLEAN, reply \in RawReplies :
         \E out \in {FetchDataFilter(asset_type, D1, ProbeStart, ProbeEnd, reply,
                                      filter_lunch)} :
             /\ probe' = [op |-> "fetch_data", asset_type |-> asset_type,
                          filter_lunch |-> filter_lunch, reply |-> reply,
                          raw |-> Dispatch(asset_type, D1, ProbeStart, ProbeEnd, reply),
                          out |-> out]
             /\ lastError' = LastErrorAfter(out)
    /\ UNCHANGED <<store, caseFold, feed, call, ncalls, pc, args, existing, combined, log,
                   published>>

\* _standardize_timezone(df)
StandardizeTimezoneCall ==
    /\ probe = NoProbe
    /\ \E rows \in SeqsUpTo(RawRows, MaxRaw) :
         probe' = [op |-> "standardize_timezone", rows |-> rows,
                   out |-> StandardizeTimezone(rows)]
    /\ UNCHANGED <<store, caseFold, feed, lastError, call, ncalls, pc, args, existing,
                   combined, log, published>>

\* wall-clock times of rows already in Asia/Kuala_Lumpur
LocalClock ==
    { HMS(12, 0, 0), HMS(12, 30, 0), HMS(12, 30, 59), HMS(12, 31, 0), HMS(13, 0, 0),
      HMS(13, 59, 59), HMS(14, 0, 0), HMS(14, 29, 59), HMS(14, 30, 0), HMS(15, 0, 0),
      OneDay + HMS(13, 30, 0) }

LocalRows == {[ts |-> t, v |-> x] : t \in LocalClock, x \in Values}

\* _filter_lunch_break(df, asset_type)
FilterLunchBreakCall ==
    /\ probe = NoProbe
    /\ \E rows \in SeqsUpTo(LocalRows, MaxRaw), asset_type \in AssetClasses :
         probe' = [op |-> "filter_lunch_break", rows |-> rows, asset_type |-> asset_type,
                   out |-> FilterLunchBreak(rows, asset_type)]
    /\ UNCHANGED <<store, caseFold, feed, lastError, call, ncalls, pc, args, existing,
                   combined, log, published>>

\* rows without zone of two days, for the requests of smart_update
DayRows ==
    {[ts |-> t + d, v |-> 1] : t \in {HMS(5, 0, 0), HMS(13, 0, 0), HMS(20, 0, 0)},
                               d \in {0, OneDay}}

DayReplies == {NoneReply} \cup {RowsReply(t) : t \in SeqsUpTo(DayRows, MaxRaw)}

\* the record a download of the day before left: one bar at 13:00 local time
DayBefore == Stored(<<[ts |-> HMS(13, 0, 0), v |-> 1]>>)

\* smart_update(symbol, asset_type, timeframe, None, end_date) on second
\* resolution, as FetchWorker.run calls it
SmartUpdateCall ==
    /\ probe = NoProbe
    /\ \E asset_type \in KnownAssets, content \in {Absent, DayBefore} :
         LET f == FileOf(Instrument(<<"X">>, D1, asset_type))
             end_date == OneDay + ProbeEnd
             plan == Plan(content, end_date)
             asked1 == IF plan = "delta" THEN DayReplies ELSE {NoneReply}
             asked2(r1) ==
                 IF \/ plan = "first"
                    \/ plan = "delta" /\ ~FetchData(asset_type, D1, IncrementalStart(content.rows),
                                                   end_date, r1).ok
                   THEN DayReplies ELSE {NoneReply}
         IN  \E r1 \in asked1 : \E r2 \in asked2(r1) :
               \E out \in {SmartUpdate(content, <<"X">>, asset_type, D1, None, end_date,
                                       r1, r2)} :
                 /\ store' = IF out.wrote THEN WriteStore([store EXCEPT ![f] = content],
                                                          f, out.ret)
                             ELSE [store EXCEPT ![f] = content]
                 /\ lastError' = out.last_error
                 /\ probe' = [op |-> "smart_update", asset_type |-> asset_type,
                              content |-> content, r1 |-> r1, r2 |-> r2, out |-> out,
                              file |-> f]
    /\ UNCHANGED <<caseFold, feed, call, ncalls, pc, args, existing, combined, log, published>>

\* -------------------------------------------------- standardize_dataframe
\* A column is its name, a sequence of characters, and the position v it had
\* in the provider's table, which stands for its values.
UpperToLower ==
    [c \in {"A","C","D","H","L","O","S","V","T"} |->
        CASE c = "A" -> "a" [] c = "C" -> "c" [] c = "D" -> "d" [] c = "H" -> "h"
          [] c = "L" -> "l" [] c = "O" -> "o" [] c = "S" -> "s" [] c = "V" -> "v"
          [] c = "T" -> "t"]

\* str.lower()
StrLower(name) ==
    [k \in 1..Len(name) |-> IF name[k] \in DOMAIN UpperToLower THEN UpperToLower[name[k]]
                            ELSE name[k]]

\* kw in name
Contains(name, kw) ==
    \E k \in 0..(Len(name) - Len(kw)) : SubSeq(name, k + 1, k + Len(kw)) = kw

ColDate == <<"D","a","t","e">>
ColOpen == <<"O","p","e","n">>
ColHigh == <<"H","i","g","h">>
ColLow == <<"L","o","w">>
ColClose == <<"C","l","o","s","e">>
ColVolume == <<"V","o","l","u","m","e">>

\* required_cols
RequiredCols == <<ColDate, ColOpen, ColHigh, ColLow, ColClose, ColVolume>>

\* the test of the loop that fills columns_to_drop
IsExtraColumn(name) ==
    LET col_lower == StrLower(name)
    IN  \/ Contains(col_lower, <<"a","d","j">>)
        \/ Contains(col_lower, <<"d","i","v","i","d","e","n","d">>)
        \/ Contains(col_lower, <<"s","p","l","i","t">>)

\* the entry the second loop puts into column_mapping; a column without
\* entry keeps its name
ColumnMapping(name) ==
    LET col_lower == StrLower(name)
    IN  IF Contains(col_lower, <<"d","a","t","e">>) \/ Contains(col_lower, <<"t","i","m","e">>) \/ name = ColDate
          THEN ColDate
        ELSE IF Contains(col_lower, <<"o","p","e","n">>) THEN ColOpen
        ELSE IF Contains(col_lower, <<"h","i","g","h">>) THEN ColHigh
        ELSE IF Contains(col_lower, <<"l","o","w">>) THEN ColLow
        ELSE IF Contains(col_lower, <<"c","l","o","s","e">>) THEN ColClose
        ELSE IF Contains(col_lower, <<"v","o","l","u","m","e">>) \/ Contains(col_lower, <<"v","o","l">>) THEN ColVolume
        ELSE name

\* df[existing_cols]: for each required name in turn, every column of that
\* name, in the order of the table
RECURSIVE SelectColumns(_, _)
SelectColumns(cols, k) ==
    IF k > Len(RequiredCols) THEN <<>>
    ELSE SelectSeq(cols, LAMBDA c : c.name = RequiredCols[k]) \o SelectColumns(cols, k + 1)

\* FirstOfEachName that keeps the last column of each name
LastOfEachName(cols) ==
    LET keep == {i \in 1..Len(cols) : \A j \in (i + 1)..Len(cols) : cols[j].name # cols[i].name}
        F[i \in 0..Len(cols)] ==
            IF i = 0 THEN <<>> ELSE IF i \in keep THEN Append(F[i - 1], cols[i]) ELSE F[i - 1]
    IN  F[Len(cols)]

\* df.loc[:, ~df.columns.duplicated()]
FirstOfEachName(cols) ==
    LET keep == {i \in 1..Len(cols) : \A j \in 1..(i - 1) : cols[j].name # cols[i].name}
        F[i \in 0..Len(cols)] ==
            IF i = 0 THEN <<>> ELSE IF i \in keep THEN Append(F[i - 1], cols[i]) ELSE F[i - 1]
    IN  F[Len(cols)]

\* the columns of standardize_dataframe(df)
StandardizeDataframe(cols) ==
    LET kept == SelectSeq(cols, LAMBDA c : ~IsExtraColumn(c.name))
        renamed == [i \in 1..Len(kept) |-> [name |-> ColumnMapping(kept[i].name), v |-> kept[i].v]]
    IN  FirstOfEachName(SelectColumns(renamed, 1))

MaxCols == 3

\* column names of provider tables
ColumnNames ==
    { <<"D","a","t","e">>,
      <<"D","a","t","e","t","i","m","e">>,
      <<"t","i","m","e","s","t","a","m","p">>,
      <<"O","p","e","n">>,
      <<"H","i","g","h">>,
      <<"L","o","w">>,
      <<"C","l","o","s","e">>,
      <<"c","l","o","s","e">>,
      <<"A","d","j"," ","C","l","o","s","e">>,
      <<"V","o","l","u","m","e">>,
      <<"D","i","v","i","d","e","n","d","s">>,
      <<"S","t","o","c","k"," ","S","p","l","i","t","s">>,
      <<"s","y","m","b","o","l">> }

\* tables of up to MaxCols columns, each holding its position
Tables ==
    {[i \in 1..Len(s) |-> [name |-> s[i], v |-> i]] : s \in SeqsUpTo(ColumnNames, MaxCols)}

\* standardize_dataframe(df)
StandardizeDataframeCall ==
    /\ probe = NoProbe
    /\ \E cols \in Tables :
         probe' = [op |-> "standardize_dataframe", cols |-> cols,
                   out |-> StandardizeDataframe(cols)]
    /\ UNCHANGED <<store, caseFold, feed, lastError, call, ncalls, pc, args, existing,
                   combined, log, published>>

\* ------------------------------------------------------------ analyze_gaps
\* the tolerance of analyze_gaps
ToleranceDays == 3

\* timedelta.days: whole days, rounded down
Days(seconds) == seconds \div OneDay

\* the warning text: it quotes the first Date and the day of requested_start
WarningMsg(first_date, requested_start) ==
    <<"incomplete", first_date, requested_start \div OneDay>>

\* AnalyzeGaps that also looks at the distance of the last row from
\* requested_end
AnalyzeGapsBothEdges(rows, requested_start, requested_end) ==
    IF rows = <<>> THEN [warn |-> TRUE, msg |-> <<"empty">>]
    ELSE IF \/ Days(rows[1].ts - requested_start) > ToleranceDays
            \/ Days(requested_end - rows[Len(rows)].ts) > ToleranceDays
      THEN [warn |-> TRUE, msg |-> WarningMsg(rows[1].ts, requested_start)]
    ELSE [warn |-> FALSE, msg |-> <<"success">>]

\* analyze_gaps(df, requested_start, requested_end)
AnalyzeGaps(rows, requested_start, requested_end) ==
    IF rows = <<>> THEN [warn |-> TRUE, msg |-> <<"empty">>]
    ELSE LET actual_start == rows[1].ts
             diff == actual_start - requested_start
         IN  IF Days(diff) > ToleranceDays
               THEN [warn |-> TRUE, msg |-> WarningMsg(actual_start, requested_start)]
             ELSE [warn |-> FALSE, msg |-> <<"success">>]

\* lags of the first row behind the requested start
Lags ==
    { 0 - OneDay, 0 - 1, 0, HMS(1, 0, 0), 3 * OneDay - 1, 3 * OneDay, 3 * OneDay + 1,
      3 * OneDay + HMS(1, 0, 0), 4 * OneDay - 1, 4 * OneDay, 5 * OneDay }

RequestedStarts == {OneDay, OneDay + HMS(12, 0, 0)}

RequestedEnds(requested_start) == {requested_start + 5 * OneDay, requested_start + 30 * OneDay}

GapRows(requested_start) == {[ts |-> requested_start + lag, v |-> 1] : lag \in Lags}

\* analyze_gaps(df, requested_start, requested_end)
AnalyzeGapsCall ==
    /\ probe = NoProbe
    /\ \E requested_start \in RequestedStarts :
       \E requested_end \in RequestedEnds(requested_start) :
       \E rows \in SeqsUpTo(GapRows(requested_start), MaxRaw + 1) :
         probe' = [op |-> "analyze_gaps", rows |-> rows, requested_start |-> requested_start,
                   requested_end |-> requested_end,
                   out |-> AnalyzeGaps(rows, requested_start, requested_end)]
    /\ UNCHANGED <<store, caseFold, feed, lastError, call, ncalls, pc, args, existing,
                   combined, log, published>>

\* ------------------------------------------------------ align_custom_files
\* A loaded file is the sequence of its rows [ts, v], Date being the index
\* and v standing for the OHLCV values; a row without v holds NaN.  The
\* files the store holds carry Date as text without zone, for which
\* _fix_timezone converts nothing.  A row of the merged table is
\* [ts, a, b, is_overlap]: a and b are the cells of the columns prefixed with
\* symbol_a and symbol_b, {} when null.
Null == {}

Cell(v) == {v}

CellOf(row) == IF "v" \in DOMAIN row THEN Cell(row.v) ELSE Null

\* name.startswith(prefix)
StartsWith(name, prefix) ==
    Len(prefix) <= Len(name) /\ SubSeq(name, 1, Len(prefix)) = prefix

\* _extract_symbol_from_filename(filepath): the stem up to its last '_'
ExtractSymbolFromFilename(filepath) ==
    LET filename == SubSeq(filepath, 1, Len(filepath) - 1)
        cuts == {k \in 1..Len(filename) : filename[k] = "_"}
    IN  IF cuts = {} THEN filename
        ELSE SubSeq(filename, 1, (CHOOSE k \in cuts : \A j \in cuts : j <= k) - 1)

\* f"{symbol}_{col}"
Prefixed(symbol, col) == symbol \o <<"_">> \o col

IndexOf(rows) == [i \in 1..Len(rows) |-> rows[i].ts]

HasDuplicates(index) == \E i, j \in 1..Len(index) : i < j /\ index[i] = index[j]

\* the sorted union of two indexes without duplicates
RECURSIVE SortedIndex(_)
SortedIndex(S) ==
    IF S = {} THEN <<>>
    ELSE LET least == CHOOSE t \in S : \A u \in S : t <= u
         IN  <<least>> \o SortedIndex(S \ {least})

\* the cell of a table at an index value it holds once, null where it
\* holds none
CellAt(rows, ts) ==
    IF \E i \in 1..Len(rows) : rows[i].ts = ts
      THEN CellOf(rows[CHOOSE i \in 1..Len(rows) : rows[i].ts = ts])
      ELSE Null

\* pd.concat([df_a, df_b], axis=1, join='outer'): equal indexes are taken as
\* they are and the rows joined by position; otherwise both tables are
\* reindexed on the union, which pandas refuses for an index with duplicates
Concat(df_a, df_b) ==
    IF IndexOf(df_a) = IndexOf(df_b)
      THEN [raised |-> FALSE,
            rows |-> [i \in 1..Len(df_a) |->
                        [ts |-> df_a[i].ts, a |-> CellOf(df_a[i]), b |-> CellOf(df_b[i])]]]
    ELSE IF HasDuplicates(IndexOf(df_a)) \/ HasDuplicates(IndexOf(df_b))
      THEN [raised |-> TRUE, rows |-> <<>>]
    ELSE LET index == SortedIndex(TsOf(df_a) \cup TsOf(df_b))
         IN  [raised |-> FALSE,
              rows |-> [i \in 1..Len(index) |->
                          [ts |-> index[i], a |-> CellAt(df_a, index[i]),
                           b |-> CellAt(df_b, index[i])]]]

\* Series.ffill() on the cells of one side
Ffill(cells) ==
    LET F[i \in 0..Len(cells)] ==
            IF i = 0 THEN <<>>
            ELSE Append(F[i - 1],
                        IF cells[i] # Null \/ i = 1 THEN cells[i] ELSE F[i - 1][i - 1])
    IN  F[Len(cells)]

\* _apply_forward_fill(df, symbol_a, symbol_b, ffill_asset): cols_a and
\* cols_b are the columns whose name starts with the symbol and '_'
ApplyForwardFill(rows, symbol_a, symbol_b, ffill_asset) ==
    LET col_a == Prefixed(symbol_a, ColClose)
        col_b == Prefixed(symbol_b, ColClose)
        InColsA(col) == StartsWith(col, symbol_a \o <<"_">>)
        InColsB(col) == StartsWith(col, symbol_b \o <<"_">>)
        Filled(col) == \/ ffill_asset \in {"A", "both"} /\ InColsA(col)
                       \/ ffill_asset \in {"B", "both"} /\ InColsB(col)
        fa == Ffill([i \in 1..Len(rows) |-> rows[i].a])
        fb == Ffill([i \in 1..Len(rows) |-> rows[i].b])
    IN  [i \in 1..Len(rows) |->
            [ts |-> rows[i].ts,
             a |-> IF Filled(col_a) THEN fa[i] ELSE rows[i].a,
             b |-> IF Filled(col_b) THEN fb[i] ELSE rows[i].b]]

\* AddGenericOverlapFlag that takes a side without Close column as present
AddGenericOverlapFlagAnyColumn(rows, close_a, close_b) ==
    [i \in 1..Len(rows) |->
        [ts |-> rows[i].ts, a |-> rows[i].a, b |-> rows[i].b,
         is_overlap |-> rows[i].a # Null /\ rows[i].b # Null]]

\* _add_generic_overlap_flag(df, symbol_a, symbol_b); close_a and close_b
\* tell whether the file of the side has a Close column
AddGenericOverlapFlag(rows, close_a, close_b) ==
    [i \in 1..Len(rows) |->
        [ts |-> rows[i].ts, a |-> rows[i].a, b |-> rows[i].b,
         is_overlap |-> IF close_a /\ close_b THEN rows[i].a # Null /\ rows[i].b # Null
                        ELSE FALSE]]

\* align_custom_files(file_path_a, file_path_b, output_filename, apply_ffill,
\* ffill_asset): the full table it returns, and the table as merged
AlignCustomFiles(file_path_a, file_path_b, df_a, df_b, close_a, close_b, apply_ffill, ffill_asset) ==
    LET symbol_a == ExtractSymbolFromFilename(file_path_a)
        symbol_b == ExtractSymbolFromFilename(file_path_b)
        merged == Concat(df_a, df_b)
    IN  IF merged.raised THEN [raised |-> TRUE, rows |-> <<>>, merged |-> <<>>]
        ELSE [raised |-> FALSE,
              merged |-> merged.rows,
              rows |-> AddGenericOverlapFlag(
                           IF apply_ffill
                             THEN ApplyForwardFill(merged.rows, symbol_a, symbol_b, ffill_asset)
                             ELSE merged.rows,
                           close_a, close_b)]

MaxAlign == 2

\* the files of the store: rows as smart_update writes them, which may
\* repeat a Date and be out of order
AlignRows ==
    {[ts |-> Bar * k, v |-> 1] : k \in 0..MaxAlign} \cup {[ts |-> Bar * k] : k \in 0..MaxAlign}

AlignFiles == SeqsUpTo(AlignRows, MaxAlign)

FfillAssets == {"A", "B", "both"}

\* pairs of files of two symbols; 'X_Y' is what a symbol 'X/Y' is stored as
AlignPaths ==
    LET x == FileName(<<"X">>, D1)
        y == FileName(<<"Y">>, D1)
        xy == FileName(<<"X", "_", "Y">>, D1)
    IN  {<<x, y>>, <<x, xy>>, <<xy, x>>}

\* align_custom_files(file_path_a, file_path_b, None, apply_ffill, ffill_asset)
AlignCustomFilesCall ==
    /\ probe = NoProbe
    /\ \E paths \in AlignPaths, df_a \in AlignFiles, df_b \in AlignFiles,
          close_a \in BOOLEAN, close_b \in BOOLEAN, apply_ffill \in BOOLEAN,
          ffill_asset \in FfillAssets :
         /\ ~apply_ffill => ffill_asset = "B"
         /\ probe' = [op |-> "align_custom_files",
                      file_path_a |-> paths[1], file_path_b |-> paths[2],
                      df_a |-> df_a, df_b |-> df_b, close_a |-> close_a, close_b |-> close_b,
                      apply_ffill |-> apply_ffill, ffill_asset |-> ffill_asset,
                      out |-> AlignCustomFiles(paths[1], paths[2], df_a, df_b, close_a,
                                               close_b, apply_ffill, ffill_asset)]
    /\ UNCHANGED <<store, caseFold, feed, lastError, call, ncalls, pc, args, existing,
                   combined, log, published>>

\* ----------------------------------------------------------- _resample_data
\* A table is [cols, rows]: cols the OHLCV columns it has, a row [ts, c] with
\* c the cell of each column, {} for NaN.
OhlcvCols == {ColOpen, ColHigh, ColLow, ColClose, ColVolume}

T5m == <<"5","m">>
T15m == <<"1","5","m">>

\* freq_map, as the width of the bucket in seconds
FreqMap == (T5m :> 5 * 60) @@ (T15m :> 15 * 60)

\* the bucket of a timestamp: buckets are counted from midnight
BucketOf(ts, width) == ts - (ts % width)

\* the rows in time order, rows of one timestamp in the order of the table
RECURSIVE SortByTime(_)
SortByTime(rows) ==
    IF rows = <<>> THEN <<>>
    ELSE LET k == CHOOSE i \in 1..Len(rows) :
                     /\ \A j \in 1..Len(rows) : rows[i].ts <= rows[j].ts
                     /\ \A j \in 1..(i - 1) : rows[j].ts # rows[i].ts
         IN  <<rows[k]>> \o SortByTime(SubSeq(rows, 1, k - 1) \o SubSeq(rows, k + 1, Len(rows)))

NonNull(cells) == SelectSeq(cells, LAMBDA c : c # Null)

ValueOf(cell) == CHOOSE v \in cell : TRUE

\* 'first' and 'last': the first and the last value that is not NaN; the
\* bars the providers deliver hold no NaN
AggFirst(cells) == IF NonNull(cells) = <<>> THEN Null ELSE NonNull(cells)[1]

\* 'last' taken as the bucket's opening value
AggLastTakesOpen(cells) == IF NonNull(cells) = <<>> THEN Null ELSE NonNull(cells)[1]

AggLast(cells) == IF NonNull(cells) = <<>> THEN Null ELSE NonNull(cells)[Len(NonNull(cells))]

\* 'max' and 'min' over the values that are not NaN
AggMax(cells) ==
    LET vs == {ValueOf(NonNull(cells)[i]) : i \in 1..Len(NonNull(cells))}
    IN  IF vs = {} THEN Null ELSE Cell(CHOOSE v \in vs : \A u \in vs : u <= v)

AggMin(cells) ==
    LET vs == {ValueOf(NonNull(cells)[i]) : i \in 1..Len(NonNull(cells))}
    IN  IF vs = {} THEN Null ELSE Cell(CHOOSE v \in vs : \A u \in vs : v <= u)

\* 'sum': the sum of the values that are not NaN, 0 when there is none
RECURSIVE SumOf(_)
SumOf(cells) ==
    IF cells = <<>> THEN 0
    ELSE (IF cells[1] = Null THEN 0 ELSE ValueOf(cells[1])) + SumOf(Tail(cells))

AggSum(cells) == Cell(SumOf(cells))

\* agg_dict
Agg(col, cells) ==
    CASE col = ColOpen -> AggFirst(cells)
      [] col = ColHigh -> AggMax(cells)
      [] col = ColLow -> AggMin(cells)
      [] col = ColClose -> AggLast(cells)
      [] col = ColVolume -> AggSum(cells)

\* dropna(how='all')
DropnaAll(rows) ==
    SelectSeq(rows, LAMBDA r : \E col \in DOMAIN r.c : r.c[col] # Null)

\* _resample_data(df, timeframe, prefix): resample(freq).agg(agg_dict) gives
\* one row for every bucket from that of the first to that of the last row
ResampleData(df, timeframe) ==
    LET width == FreqMap[timeframe]
        cols == df.cols \cap OhlcvCols
        sorted == SortByTime(df.rows)
        lo == BucketOf(sorted[1].ts, width)
        hi == BucketOf(sorted[Len(sorted)].ts, width)
        InBucket(b) == SelectSeq(sorted, LAMBDA r : BucketOf(r.ts, width) = b)
        Row(b) == [ts |-> b,
                   c |-> [col \in cols |->
                            Agg(col, [i \in 1..Len(InBucket(b)) |-> InBucket(b)[i].c[col]])]]
        all == [k \in 1..((hi - lo) \div width + 1) |-> Row(lo + (k - 1) * width)]
    IN  [cols |-> cols,
         rows |-> IF df.rows = <<>> THEN <<>> ELSE DropnaAll(all)]

MaxBars == 3

\* one-minute bars, the last two of them in later buckets
BarTimes == {0, 60, 120, 5 * 60, 15 * 60}

BarShapes ==
    { (ColOpen :> Cell(10)) @@ (ColHigh :> Cell(10)) @@ (ColLow :> Cell(9))
        @@ (ColClose :> Cell(10)) @@ (ColVolume :> Cell(100)),
      (ColOpen :> Cell(11)) @@ (ColHigh :> Cell(12)) @@ (ColLow :> Cell(10))
        @@ (ColClose :> Cell(11)) @@ (ColVolume :> Cell(200)),
      (ColOpen :> Cell(12)) @@ (ColHigh :> Cell(13)) @@ (ColLow :> Cell(11))
        @@ (ColClose :> Cell(12)) @@ (ColVolume :> Cell(300)) }

\* the columns a stored table may have
ColumnSets ==
    { OhlcvCols, OhlcvCols \ {ColVolume}, OhlcvCols \ {ColClose}, {ColClose} }

Restrict(shape, cols) == [col \in cols |-> shape[col]]

TablesOf(times, shapes, n) ==
    { [cols |-> cols,
       rows |-> [i \in 1..Len(s) |-> [ts |-> s[i][1], c |-> Restrict(s[i][2], cols)]]] :
         s \in SeqsUpTo(times \X shapes, n), cols \in ColumnSets }

\* _resample_data(df, timeframe, prefix)
ResampleDataCall ==
    /\ probe = NoProbe
    /\ \E df \in TablesOf(BarTimes, BarShapes, MaxBars), timeframe \in DOMAIN FreqMap :
         probe' = [op |-> "resample_data", df |-> df, timeframe |-> timeframe,
                   out |-> ResampleData(df, timeframe)]
    /\ UNCHANGED <<store, caseFold, feed, lastError, call, ncalls, pc, args, existing,
                   combined, log, published>>

\* ----------------------------------------------------------- align_datasets
\* the cells of a resampled table at an index value, NaN where it has none
CellsAt(table, ts) ==
    IF \E i \in 1..Len(table.rows) : table.rows[i].ts = ts
      THEN table.rows[CHOOSE i \in 1..Len(table.rows) : table.rows[i].ts = ts].c
      ELSE [col \in table.cols |-> Null]

\* pd.merge(base_df, target_df, left_index=True, right_index=True, how='outer')
\* of two resampled tables, whose columns bear the prefixes of two symbols
MergeOuter(base, target) ==
    LET index == SortedIndex(TsOf(base.rows) \cup TsOf(target.rows))
    IN  [i \in 1..Len(index) |->
            [ts |-> index[i], a |-> CellsAt(base, index[i]), b |-> CellsAt(target, index[i])]]

\* _add_overlap_flag(df, base_symbol, target_symbol)
AddOverlapFlag(rows, base_cols, target_cols) ==
    [i \in 1..Len(rows) |->
        [ts |-> rows[i].ts, a |-> rows[i].a, b |-> rows[i].b,
         is_overlap |-> IF ColClose \in base_cols /\ ColClose \in target_cols
                          THEN rows[i].a[ColClose] # Null /\ rows[i].b[ColClose] # Null
                          ELSE FALSE]]

\* align_datasets(base_symbol, target_symbol, timeframe, output_filename)
AlignDatasets(base_df, target_df, timeframe) ==
    LET base == ResampleData(base_df, timeframe)
        target == ResampleData(target_df, timeframe)
    IN  [cols_a |-> base.cols, cols_b |-> target.cols,
         rows |-> AddOverlapFlag(MergeOuter(base, target), base.cols, target.cols)]

\* the tables of the store align_datasets loads
StoreTables == TablesOf({0, 5 * 60, 15 * 60}, {CHOOSE shape \in BarShapes : TRUE}, MaxAlign)

\* align_datasets(base_symbol, target_symbol, timeframe) for two symbols
AlignDatasetsCall ==
    /\ probe = NoProbe
    /\ \E base_df \in StoreTables, target_df \in StoreTables, timeframe \in DOMAIN FreqMap :
         probe' = [op |-> "align_datasets", base_df |-> base_df, target_df |-> target_df,
                   timeframe |-> timeframe,
                   out |-> AlignDatasets(base_df, target_df, timeframe)]
    /\ UNCHANGED <<store, caseFold, feed, lastError, call, ncalls, pc, args, existing,
                   combined, log, published>>

\* -------------------------------------------------------- _generate_preview
\* the defaults of n_head and n_tail
NHead == 50
NTail == 50

\* df.head(n) and df.tail(n)
HeadRows(df, n) == SubSeq(df, 1, IF n < Len(df) THEN n ELSE Len(df))

TailRows(df, n) == SubSeq(df, IF n < Len(df) THEN Len(df) - n + 1 ELSE 1, Len(df))

\* GeneratePreview that always joins head and tail
GeneratePreviewAlwaysCut(df, n_head, n_tail) == HeadRows(df, n_head) \o TailRows(df, n_tail)

\* _generate_preview(df, n_head, n_tail)
GeneratePreview(df, n_head, n_tail) ==
    IF Len(df) <= n_head + n_tail THEN df
    ELSE HeadRows(df, n_head) \o TailRows(df, n_tail)

MaxPreview == 120

\* _generate_preview(merged_df) as align_custom_files calls it; the rows of
\* the table are told apart by their number and marked by one of two values
GeneratePreviewCall ==
    /\ probe = NoProbe
    /\ \E n \in 0..MaxPreview, mark \in 1..2 :
         LET df == [i \in 1..n |-> [row |-> i, v |-> mark]]
         IN  probe' = [op |-> "generate_preview", df |-> df,
                       out |-> GeneratePreview(df, NHead, NTail)]
    /\ UNCHANGED <<store, caseFold, feed, lastError, call, ncalls, pc, args, existing,
                   combined, log, published>>

PureNext ==
    \/ FetchDataCall
    \/ StandardizeTimezoneCall
    \/ FilterLunchBreakCall
    \/ SmartUpdateCall
    \/ StandardizeDataframeCall
    \/ AnalyzeGapsCall
    \/ AlignCustomFilesCall
    \/ ResampleDataCall
    \/ AlignDatasetsCall
    \/ GeneratePreviewCall

SpecPure == PureInit /\ [][PureNext]_vars

\* ================================================================ FetchWorker
(* One run of FetchWorker.run, statement by statement.  probe holds the     *)
(* worker: its arguments, the position pc in run, the frame df and the      *)
(* signals emitted so far.  The provider's replies, the file found in the   *)
(* store and the statement that raises, if one does, are fixed when the     *)
(* worker is created.                                                       *)
WorkerAssets == {"Malaysia Stock", CryptoAsset, "Forex"}

\* one bar that is in the midday closure after the shift, one that is not
WorkerReplies ==
    { NoneReply, [kind |-> "raise", rows |-> <<>>, err |-> "network"],
      RowsReply(<<[ts |-> OneDay + HMS(5, 0, 0), v |-> 1]>>),
      RowsReply(<<[ts |-> OneDay + HMS(9, 0, 0), v |-> 1]>>) }

WorkerEnd == OneDay + ProbeEnd

\* a call inside the try block that raises for a reason of its own
Faults == {"none", "filter", "analyze"}

WorkerInit ==
    /\ store = [f \in Files |-> Absent]
    /\ caseFold = FALSE
    /\ feed = <<>>
    /\ lastError = "None"
    /\ call = NoCall
    /\ ncalls = 0
    /\ pc = [p \in Procs |-> "idle"]
    /\ args = [p \in Procs |-> NoArgs]
    /\ existing = [p \in Procs |-> <<>>]
    /\ combined = [p \in Procs |-> <<>>]
    /\ log = <<>>
    /\ published = 0
    /\ \E asset_type \in WorkerAssets, use_smart_update \in BOOLEAN, filter_lunch \in BOOLEAN,
          content \in {Absent, DayBefore}, r1 \in WorkerReplies, r2 \in WorkerReplies,
          fault \in Faults :
         probe = [op |-> "worker", pc |-> "start", asset_type |-> asset_type,
                  use_smart_update |-> use_smart_update, filter_lunch |-> filter_lunch,
                  content |-> content, r1 |-> r1, r2 |-> r2, fault |-> fault,
                  df |-> <<>>, out |-> [warn |-> FALSE, msg |-> <<>>], signals |-> <<>>]

\* df is None or df.empty, taken as never true
IsEmptyNever(df) == FALSE

\* df is None or df.empty
IsEmpty(df) == df = <<>>

\* self.fetcher.smart_update(...) of lines 65-73
WorkerSmartUpdate ==
    /\ probe.op = "worker" /\ probe.pc = "start" /\ probe.use_smart_update
    /\ LET f == FileOf(Instrument(<<"X">>, D1, probe.asset_type))
       IN  \E out \in {SmartUpdate(probe.content, <<"X">>, probe.asset_type, D1,
                                   <<ProbeStart>>, WorkerEnd, probe.r1, probe.r2)} :
             /\ store' = StoreAfter([store EXCEPT ![f] = probe.content], f, out)
             /\ lastError' = out.last_error
             /\ probe' = [probe EXCEPT !.df = out.ret,
                                       !.pc = IF out.raised THEN "except"
                                              ELSE IF probe.filter_lunch THEN "filter"
                                              ELSE "check"]
    /\ UNCHANGED <<caseFold, feed, call, ncalls, pc, args, existing, combined, log, published>>

\* self.fetcher._filter_lunch_break(df, self.asset_type) of line 77
WorkerFilter ==
    /\ probe.op = "worker" /\ probe.pc = "filter"
    /\ probe' = IF probe.fault = "filter" THEN [probe EXCEPT !.pc = "except"]
                ELSE [probe EXCEPT !.df = FilterLunchBreak(probe.df, probe.asset_type),
                                   !.pc = "check"]
    /\ UNCHANGED <<store, caseFold, feed, lastError, call, ncalls, pc, args, existing,
                   combined, log, published>>

\* self.fetcher.fetch_data(...) of lines 80-89
WorkerFetchData ==
    /\ probe.op = "worker" /\ probe.pc = "start" /\ ~probe.use_smart_update
    /\ \E out \in {FetchDataFilter(probe.asset_type, D1, ProbeStart, WorkerEnd, probe.r1,
                                   probe.filter_lunch)} :
         /\ lastError' = LastErrorAfter(out)
         /\ probe' = [probe EXCEPT !.df = out.rows,
                                   !.pc = IF out.ok THEN "check" ELSE "except"]
    /\ UNCHANGED <<store, caseFold, feed, call, ncalls, pc, args, existing, combined, log,
                   published>>

\* lines 93-96: error.emit and return, which goes through finally
WorkerCheck ==
    /\ probe.op = "worker" /\ probe.pc = "check"
    /\ probe' = IF IsEmpty(probe.df)
                  THEN [probe EXCEPT !.signals = Append(@, "error"), !.pc = "finally"]
                  ELSE [probe EXCEPT !.pc = "analyze"]
    /\ UNCHANGED <<store, caseFold, feed, lastError, call, ncalls, pc, args, existing,
                   combined, log, published>>

\* self.fetcher.analyze_gaps(df, self.start_date, self.end_date) of line 100
WorkerAnalyze ==
    /\ probe.op = "worker" /\ probe.pc = "analyze"
    /\ probe' = IF probe.fault = "analyze" THEN [probe EXCEPT !.pc = "except"]
                ELSE [probe EXCEPT !.out = AnalyzeGaps(probe.df, ProbeStart, WorkerEnd),
                                   !.pc = "emit"]
    /\ UNCHANGED <<store, caseFold, feed, lastError, call, ncalls, pc, args, existing,
                   combined, log, published>>

\* self.success.emit(df, has_warning, warning_msg, "") of line 111
WorkerSuccess ==
    /\ probe.op = "worker" /\ probe.pc = "emit"
    /\ probe' = [probe EXCEPT !.signals = Append(@, "success"), !.pc = "finally"]
    /\ UNCHANGED <<store, caseFold, feed, lastError, call, ncalls, pc, args, existing,
                   combined, log, published>>

\* except Exception: self.error.emit(...) of line 120
WorkerExcept ==
    /\ probe.op = "worker" /\ probe.pc = "except"
    /\ probe' = [probe EXCEPT !.signals = Append(@, "error"), !.pc = "finally"]
    /\ UNCHANGED <<store, caseFold, feed, lastError, call, ncalls, pc, args, existing,
                   combined, log, published>>

\* finally: self.finished.emit() of line 125
WorkerFinally ==
    /\ probe.op = "worker" /\ probe.pc = "finally"
    /\ probe' = [probe EXCEPT !.signals = Append(@, "finished"), !.pc = "done"]
    /\ UNCHANGED <<store, caseFold, feed, lastError, call, ncalls, pc, args, existing,
                   combined, log, published>>

WorkerNext ==
    \/ WorkerSmartUpdate
    \/ WorkerFilter
    \/ WorkerFetchData
    \/ WorkerCheck
    \/ WorkerAnalyze
    \/ WorkerSuccess
    \/ WorkerExcept
    \/ WorkerFinally

\* the thread runs run() to its end
SpecWorker == WorkerInit /\ [][WorkerNext]_vars /\ WF_vars(WorkerNext)

\* ================================================================== claims
Returned == call.op = "update" /\ ~call.raised

RowSet(s) == {s[i] : i \in 1..Len(s)}

C1_Witness ==
    /\ Returned
    /\ call.path = "merge"
    /\ call.post = Stored(call.ret)
    /\ call.post # call.pre

C2_StoredStrictlyAscending == Returned => StrictlyAscending(call.post.rows)

\* C3: in an incremental update where the stored record and the delta both
\* hold a row of timestamp t, the persisted and returned record holds exactly
\* one row of t, and it is the last row of t in the delta.
C3_DeltaWins ==
    (Returned /\ call.path = "merge") =>
        /\ call.post = Stored(call.ret)
        /\ \A t \in TsOf(call.pre.rows) \cap TsOf(call.delta) :
             LET last == CHOOSE j \in 1..Len(call.delta) :
                            /\ call.delta[j].ts = t
                            /\ \A k \in 1..Len(call.delta) : call.delta[k].ts = t => k <= j
             IN  /\ Cardinality({i \in 1..Len(call.ret) : call.ret[i].ts = t}) = 1
                 /\ \A i \in 1..Len(call.ret) :
                      call.ret[i].ts = t => call.ret[i] = call.delta[last]

C3_Witness ==
    /\ Returned
    /\ call.path = "merge"
    /\ \E i \in 1..Len(call.pre.rows) : \E j \in 1..Len(call.delta) :
         /\ call.pre.rows[i].ts = call.delta[j].ts
         /\ call.pre.rows[i].v # call.delta[j].v
         /\ call.delta[j] \in RowSet(call.ret)

\* C4: after update returns for a key that had a readable stored record,
\* every timestamp of that record is still in the persisted record, whatever
\* the delta fetch gave and whatever start the caller passed.
C4_NeverShrinks ==
    (Returned /\ call.pre.state = "ok") => TsOf(call.pre.rows) \subseteq TsOf(call.post.rows)

\* C5: with a readable stored record and last timestamp + 1 day <= end, if
\* the provider has no rows in the delta range, update returns the stored
\* rows unchanged: no full-range fetch, no replacement of the stored rows.
C5_EmptyDeltaKeepsStore ==
    ( /\ call.op = "update"
      /\ call.pre.state = "ok"
      /\ MaxTs(call.pre.rows) + OneDay <= call.end_date
      /\ InRange(feed, MaxTs(call.pre.rows) + OneDay, call.end_date) = <<>>
      /\ call.r1 = RowsReply(<<>>)
      /\ call.honest )
    => /\ ~call.raised
       /\ call.ret = call.pre.rows
       /\ call.post = call.pre
       /\ Len(call.ranges) = 1

\* C6: two update calls in immediate succession for the same key with the
\* same end and no new provider data in between: the second leaves the
\* stored record with the same set of rows as the first left it.
C6_SecondCallChangesNothing ==
    [][ ( /\ Returned
          /\ call.honest
          /\ store[call.file] = call.post
          /\ ncalls' = ncalls + 1
          /\ call'.op = "update"
          /\ call'.honest
          /\ call'.file = call.file
          /\ call'.end_date = call.end_date )
        => RowSet(store'[call.file].rows) = RowSet(store[call.file].rows) ]_vars

\* C7: when the stored record exists but cannot be read, update does not
\* surface the read error: it fetches the full range [start if given, else
\* end - 365 days; end] once, overwrites the record with the result and
\* returns it; it fails only if that fetch fails.
C7_CorruptStoreRebuilt ==
    (call.op = "update" /\ call.pre.state = "corrupt") =>
        /\ call.ranges =
             << << IF call.start_date = None
                     THEN call.end_date - LookbackDays * OneDay
                     ELSE call.start_date[1],
                   call.end_date >> >>
        /\ call.raised <=> lastError # "None"
        /\ ~call.raised =>
             /\ call.post = Stored(call.ret)
             /\ call.ret # <<>>
             /\ RowSet(call.ret) \subseteq
                  {[r EXCEPT !.ts = @ + KLOffset] : r \in RowSet(call.r2.rows)}
        /\ call.raised => call.post = call.pre

C7_Witness ==
    /\ Returned
    /\ call.pre.state = "corrupt"
    /\ call.start_date # None
    /\ call.post.state = "ok"

\* C10: fetch with an asset class outside the five configured ones fails
\* without calling a strategy and without a Series, and last_error holds the
\* message of the error.
C10_UnknownAssetFails ==
    (call.op = "fetch" /\ call.asset_type \notin KnownAssets) =>
        /\ call.raised
        /\ call.strats = <<>>
        /\ call.ret = <<>>
        /\ lastError = "Unknown asset type"

C10_Witness ==
    /\ call.op = "fetch"
    /\ call.asset_type = "Forex"
    /\ call.raised
    /\ lastError = "Unknown asset type"

\* --------------------------------------------------- concurrent claims
\* C8: two concurrent calls of update on one key are not serialized: each
\* write replaces the whole file by the writer's own stored-then-delta merge
\* (or its own full download), whatever was written since it read; the last
\* writer wins.
C8_LastWriterWins ==
    \A k \in 1..Len(log) :
        log[k].after =
            Stored(IF log[k].merged
                     THEN SortValues(DropDuplicatesKeepLast(log[k].existing \o log[k].delta))
                     ELSE log[k].delta)

\* Both calls read the record before either wrote; the record left at the
\* end lacks a row of the delta that was written first.
C8_Witness ==
    /\ Len(log) = 2
    /\ pc = Idle
    /\ log[1].proc # log[2].proc
    /\ log[1].inst = log[2].inst
    /\ log[1].merged /\ log[2].merged
    /\ log[1].honest /\ log[2].honest
    /\ log[1].existing = log[1].before.rows
    /\ log[2].existing = log[1].before.rows
    /\ \E r \in RowSet(log[1].delta) :
         /\ r.ts \notin TsOf(store[log[1].file].rows)
         /\ r.ts \notin TsOf(log[2].delta)

SameKey(i, j) == i.symbol = j.symbol /\ i.timeframe = j.timeframe

DistinctKeysDistinctFiles ==
    \A i \in AllInstruments : \A j \in AllInstruments :
        FileOf(i) = FileOf(j) => SameKey(i, j)

\* C9: the file of a key changes only by the write of an update on that key,
\* an update reads the file its own key names, and two distinct (symbol,
\* timeframe) keys never have the same file.
C9_OnlyOwnFile ==
    [][ /\ \A i \in AllInstruments :
             store'[FileOf(i)] # store[FileOf(i)] =>
                 \E p \in Procs : /\ pc[p] = "write"
                                  /\ pc'[p] = "idle"
                                  /\ SameKey(args[p].inst, i)
        /\ \A p \in Procs :
             (pc[p] = "check" /\ pc'[p] = "delta") =>
                 existing'[p] = store[FileOf(args[p].inst)].rows
        /\ DistinctKeysDistinctFiles ]_vars

\* An update on one key has merged its delta into the record that an update
\* on another key wrote, and has replaced that record.
C9_Witness ==
    /\ Len(log) = 2
    /\ ~SameKey(log[1].inst, log[2].inst)
    /\ log[1].file = log[2].file
    /\ log[1].after.rows # <<>>
    /\ log[2].merged
    /\ log[2].existing = log[1].after.rows
    /\ store[FileOf(log[1].inst)] = log[2].after
    /\ log[2].after # log[1].after

\* ------------------------------------------------------ claims on the router
\* C11: for each of the three strategies, when the provider answers an empty
\* or a null result, the error that reaches the caller of fetch is of
\* category NoDataFound.
C11_EmptyIsNoDataFound ==
    ( /\ call.op = "fetch"
      /\ call.asset_type \in KnownAssets
      /\ call.timeframe \in TIMEFRAME_MAP
      /\ call.r1.kind \in {"none", "rows"}
      /\ call.r1.rows = <<>> )
    => call.raised /\ lastError = "nodata"

\* The equities strategy was answered None and the error that came out is
\* the one of the last branch of its except block.
C11_Witness ==
    /\ call.op = "fetch"
    /\ call.asset_type = "US Stock"
    /\ call.timeframe \in TIMEFRAME_MAP
    /\ call.r1.kind = "none"
    /\ call.raised
    /\ lastError = "other"

InvalidConfiguration == {"Unknown asset type", "Unsupported timeframe"}

\* C12: fetch with a timeframe that is no key of the timeframe map fails
\* with an error of category InvalidConfiguration for every asset class,
\* never with the fallback or a network failure.
C12_UnknownTimeframeInvalid ==
    (call.op = "fetch" /\ call.timeframe \notin TIMEFRAME_MAP) =>
        call.raised /\ lastError \in InvalidConfiguration

\* A fetch of timeframe 1y on an equity has failed with the fallback error.
C12_Witness ==
    /\ call.op = "fetch"
    /\ call.timeframe = Y1
    /\ call.asset_type \in YfAssets
    /\ call.raised
    /\ lastError = "other"

\* ---------------------------------------------------- claims on the stages
\* seconds since midnight
SecondOfDay(ts) == ts % OneDay

InClosure(ts) ==
    HMS(12, 31, 0) <= SecondOfDay(ts) /\ SecondOfDay(ts) <= HMS(14, 29, 59)

\* C13: a successful fetch has run, on the rows of the strategy, the schema
\* step (the zone is not kept), then the timezone step (eight hours are
\* added to the wall-clock time, once, for every asset class), then, only if
\* the flag is set, the session filter on the shifted times; a fetch whose
\* strategy fails returns no rows.
C13_StagesInOrder ==
    probe.op = "fetch_data" =>
        IF ~probe.raw.ok \/ probe.raw.rows = <<>>
          THEN ~probe.out.ok /\ probe.out.rows = <<>> /\ lastError # "None"
          ELSE LET shifted == [i \in 1..Len(probe.raw.rows) |->
                                  [ts |-> probe.raw.rows[i].ts + KLOffset,
                                   v |-> probe.raw.rows[i].v]]
                   filtering == probe.filter_lunch /\ probe.asset_type \in LunchAssets
               IN  /\ probe.out.ok
                   /\ probe.out.rows =
                        SelectSeq(shifted, LAMBDA r : ~(filtering /\ InClosure(r.ts)))

\* The filter has removed a row that lies in the closure only after the
\* shift, and has kept one that lay in it before the shift.
C13_Witness ==
    /\ probe.op = "fetch_data"
    /\ probe.filter_lunch
    /\ probe.asset_type = "Malaysia Stock"
    /\ probe.reply = RowsReply(<<[ts |-> HMS(5, 0, 0), v |-> 1], [ts |-> HMS(13, 0, 0), v |-> 1]>>)
    /\ probe.out.ok
    /\ probe.out.rows = <<[ts |-> HMS(21, 0, 0), v |-> 1]>>

\* C14: a provider row whose timestamp carries a zone comes out of fetch
\* with the wall-clock time of the same instant in Asia/Kuala_Lumpur.
C14_OffsetConverted ==
    (probe.op = "fetch_data" /\ probe.out.ok /\ ~probe.filter_lunch) =>
        \A i \in 1..Len(probe.raw.rows) :
            HasZone(probe.raw.rows[i]) =>
                probe.out.rows[i].ts = probe.raw.rows[i].ts - probe.raw.rows[i].off + KLOffset

\* An equities bar stamped 13:00 in a UTC-5 zone has come out as 21:00.
C14_Witness ==
    /\ probe.op = "fetch_data"
    /\ probe.asset_type = "US Stock"
    /\ ~probe.filter_lunch
    /\ probe.reply = RowsReply(<<[ts |-> HMS(13, 0, 0), off |-> 0 - HMS(5, 0, 0), v |-> 1]>>)
    /\ probe.out.ok
    /\ probe.out.rows = <<[ts |-> HMS(21, 0, 0), v |-> 1]>>

\* C15: a timestamp without zone is taken as UTC: it comes out of the
\* timezone step, and of fetch for every asset class, as the same wall-clock
\* time plus eight hours, without zone, seconds kept.
C15_NaiveIsUtc ==
    /\ probe.op = "standardize_timezone" =>
         /\ Len(probe.out) = Len(probe.rows)
         /\ \A i \in 1..Len(probe.rows) :
              /\ ~HasZone(probe.out[i])
              /\ probe.out[i].v = probe.rows[i].v
              /\ ~HasZone(probe.rows[i]) => probe.out[i].ts = probe.rows[i].ts + HMS(8, 0, 0)
    /\ (probe.op = "fetch_data" /\ probe.out.ok /\ ~probe.filter_lunch) =>
         /\ Len(probe.out.rows) = Len(probe.raw.rows)
         /\ \A i \in 1..Len(probe.raw.rows) :
              ~HasZone(probe.raw.rows[i]) =>
                  probe.out.rows[i] = [ts |-> probe.raw.rows[i].ts + HMS(8, 0, 0),
                                       v |-> probe.raw.rows[i].v]

C15_Witness ==
    /\ probe.op = "fetch_data"
    /\ probe.asset_type = CryptoAsset
    /\ probe.out.ok
    /\ probe.reply = RowsReply(<<[ts |-> HMS(4, 30, 59), v |-> 1]>>)
    /\ probe.out.rows = <<[ts |-> HMS(12, 30, 59), v |-> 1]>>

\* C16: for a filtered asset class the session filter removes exactly the
\* rows of wall-clock time from 12:31 to 14:29 and keeps every other row,
\* those of 12:30 and 14:30 among them, values and order unchanged.
C16_ClosureRemoved ==
    (probe.op = "filter_lunch_break" /\ probe.asset_type \in LunchAssets) =>
        probe.out = SelectSeq(probe.rows, LAMBDA r : ~InClosure(r.ts))

C16_Witness ==
    /\ probe.op = "filter_lunch_break"
    /\ probe.asset_type = "Malaysia Stock"
    /\ probe.rows = <<[ts |-> HMS(14, 30, 0), v |-> 2], [ts |-> HMS(14, 29, 59), v |-> 1]>>
    /\ probe.out = <<[ts |-> HMS(14, 30, 0), v |-> 2]>>

CanonicalPosition(name) == CHOOSE k \in 1..Len(RequiredCols) : RequiredCols[k] = name

\* C18: the columns standardize_dataframe returns bear canonical names, in
\* canonical order, each at most once; the values of each are those of the
\* first column of the table, in the table's order, that maps to the name
\* and whose name holds none of 'adj', 'dividend', 'split' in any case.
C18_CanonicalColumns ==
    probe.op = "standardize_dataframe" =>
        /\ \A i \in 1..Len(probe.out) :
             \E k \in 1..Len(RequiredCols) : probe.out[i].name = RequiredCols[k]
        /\ \A i, j \in 1..Len(probe.out) :
             i < j => CanonicalPosition(probe.out[i].name) < CanonicalPosition(probe.out[j].name)
        /\ \A i \in 1..Len(probe.out) :
             LET from == probe.out[i].v
                 Supplies(c) == /\ ~\E kw \in {<<"a","d","j">>, <<"d","i","v","i","d","e","n","d">>, <<"s","p","l","i","t">>} :
                                      Contains(StrLower(c.name), kw)
                                /\ ColumnMapping(c.name) = probe.out[i].name
             IN  /\ from \in 1..Len(probe.cols)
                 /\ Supplies(probe.cols[from])
                 /\ \A j \in 1..(from - 1) : ~Supplies(probe.cols[j])

\* Of three columns that hold 'close', the adjusted one is passed over and
\* the first of the other two supplies Close.
C18_Witness ==
    /\ probe.op = "standardize_dataframe"
    /\ probe.cols = <<[name |-> <<"A","d","j"," ","C","l","o","s","e">>, v |-> 1], [name |-> <<"C","l","o","s","e">>, v |-> 2],
                      [name |-> <<"c","l","o","s","e">>, v |-> 3]>>
    /\ probe.out = <<[name |-> ColClose, v |-> 2]>>

\* C19: analyze_gaps warns exactly when the series is empty or its first
\* timestamp lies more than three days after the requested start, by however
\* little; a series that starts at the requested start gets the success
\* message.
C19_WarnsBeyondThreeDays ==
    probe.op = "analyze_gaps" =>
        /\ probe.out.warn <=>
             \/ probe.rows = <<>>
             \/ probe.rows[1].ts - probe.requested_start > 3 * OneDay
        /\ ~probe.out.warn => probe.out.msg = <<"success">>

\* A series that starts three days and one hour late is reported complete.
C19_Witness ==
    /\ probe.op = "analyze_gaps"
    /\ probe.rows # <<>>
    /\ probe.rows[1].ts - probe.requested_start = 3 * OneDay + HMS(1, 0, 0)
    /\ probe.out = [warn |-> FALSE, msg |-> <<"success">>]

\* C20: the table align_custom_files returns has one row for each timestamp
\* of either file and no other row; without forward fill, the cells of B
\* are null at a timestamp only A holds and the cells of A are null at a
\* timestamp only B holds.
C20_OuterJoinComplete ==
    (probe.op = "align_custom_files" /\ ~probe.out.raised) =>
        LET rows == probe.out.rows
        IN  /\ TsOf(rows) = TsOf(probe.df_a) \cup TsOf(probe.df_b)
            /\ \A i, j \in 1..Len(rows) : i < j => rows[i].ts # rows[j].ts
            /\ ~probe.apply_ffill =>
                 \A i \in 1..Len(rows) :
                     /\ rows[i].ts \notin TsOf(probe.df_b) => rows[i].b = Null
                     /\ rows[i].ts \notin TsOf(probe.df_a) => rows[i].a = Null

\* Two files that hold the same Date twice come back as two rows of that
\* Date.
C20_Witness ==
    /\ probe.op = "align_custom_files"
    /\ ~probe.apply_ffill
    /\ probe.df_a = <<[ts |-> Bar, v |-> 1], [ts |-> Bar, v |-> 1]>>
    /\ probe.df_b = probe.df_a
    /\ ~probe.out.raised
    /\ Len(probe.out.rows) = 2
    /\ probe.out.rows[1].ts = probe.out.rows[2].ts

\* ---------------------------------------------------- claims on alignment
\* C21: forward fill changes the columns of the chosen side only: with
\* target 'B' the cells of A's columns are those of the merged table, with
\* target 'A' the cells of B's columns are, whatever the two symbols taken
\* from the file names.
C21_FfillOnlyTarget ==
    (probe.op = "align_custom_files" /\ ~probe.out.raised /\ probe.apply_ffill) =>
        \A i \in 1..Len(probe.out.rows) :
            /\ probe.ffill_asset = "B" => probe.out.rows[i].a = probe.out.merged[i].a
            /\ probe.ffill_asset = "A" => probe.out.rows[i].b = probe.out.merged[i].b

\* With files X_1d and X_Y_1d and target 'A', a null cell of B has been
\* filled.
C21_Witness ==
    /\ probe.op = "align_custom_files"
    /\ ExtractSymbolFromFilename(probe.file_path_a) = <<"X">>
    /\ ExtractSymbolFromFilename(probe.file_path_b) = <<"X", "_", "Y">>
    /\ probe.apply_ffill
    /\ probe.ffill_asset = "A"
    /\ ~probe.out.raised
    /\ \E i \in 1..Len(probe.out.rows) :
         probe.out.merged[i].b = Null /\ probe.out.rows[i].b # Null

\* the file has a row at ts whose close is not null
HasCloseAt(df, ts) == \E j \in 1..Len(df) : df[j].ts = ts /\ CellOf(df[j]) # Null

\* C22: is_overlap is true at a timestamp only if each of the two files has
\* a row of that timestamp with a close that is not null, under every
\* setting of forward fill.
C22_OverlapOnlyOnCommonRows ==
    (probe.op = "align_custom_files" /\ ~probe.out.raised) =>
        \A i \in 1..Len(probe.out.rows) :
            probe.out.rows[i].is_overlap =>
                /\ HasCloseAt(probe.df_a, probe.out.rows[i].ts)
                /\ HasCloseAt(probe.df_b, probe.out.rows[i].ts)

\* Under the default setting (fill, target 'B') a timestamp that only A
\* holds is flagged as overlap.
C22_Witness ==
    /\ probe.op = "align_custom_files"
    /\ probe.apply_ffill
    /\ probe.ffill_asset = "B"
    /\ ExtractSymbolFromFilename(probe.file_path_b) = <<"Y">>
    /\ ~probe.out.raised
    /\ \E i \in 1..Len(probe.out.rows) :
         /\ probe.out.rows[i].is_overlap
         /\ probe.out.rows[i].ts \notin TsOf(probe.df_b)

\* -------------------------------------------------- claims on the resampler
\* the source rows of the bucket that starts at b
SourceIn(b) ==
    {i \in 1..Len(probe.df.rows) : BucketOf(probe.df.rows[i].ts, FreqMap[probe.timeframe]) = b}

\* C25: the resampled table has no row for a bucket without source row,
\* whatever columns the table has, Volume among them or not.
C25_NoRowForEmptyBucket ==
    probe.op = "resample_data" =>
        \A k \in 1..Len(probe.out.rows) : SourceIn(probe.out.rows[k].ts) # {}

\* A table with Volume column and bars at 00:05 and 00:15 has got a row for
\* the bucket of 00:10, with volume 0.
C25_Witness ==
    /\ probe.op = "resample_data"
    /\ probe.timeframe = T5m
    /\ ColVolume \in probe.df.cols
    /\ TsOf(probe.df.rows) = {5 * 60, 15 * 60}
    /\ \E k \in 1..Len(probe.out.rows) :
         /\ probe.out.rows[k].ts = 10 * 60
         /\ probe.out.rows[k].c[ColVolume] = Cell(0)

\* C26: each bucket with source rows has one row in the resampled table; its
\* open is the open of an earliest source row of the bucket, its close the
\* close of a latest one, its high the greatest high, its low the least low,
\* its volume the sum of the volumes; the table has the OHLCV columns of
\* the source and no other.
C26_OhlcvAggregation ==
    probe.op = "resample_data" =>
        LET src == probe.df.rows
            out == probe.out.rows
            width == FreqMap[probe.timeframe]
        IN  /\ probe.out.cols = probe.df.cols
            /\ \A i \in 1..Len(src) :
                 \E k \in 1..Len(out) :
                    /\ out[k].ts = BucketOf(src[i].ts, width)
                    /\ \A m \in 1..Len(out) : out[m].ts = out[k].ts => m = k
            /\ \A k \in 1..Len(out) :
                 LET in == SourceIn(out[k].ts)
                     Val(i, col) == ValueOf(src[i].c[col])
                     got(col) == ValueOf(out[k].c[col])
                 IN  in # {} =>
                       /\ DOMAIN out[k].c = probe.df.cols
                       /\ ColOpen \in probe.df.cols =>
                            \E i \in in : /\ \A j \in in : src[i].ts <= src[j].ts
                                          /\ got(ColOpen) = Val(i, ColOpen)
                       /\ ColClose \in probe.df.cols =>
                            \E i \in in : /\ \A j \in in : src[j].ts <= src[i].ts
                                          /\ got(ColClose) = Val(i, ColClose)
                       /\ ColHigh \in probe.df.cols =>
                            /\ \E i \in in : got(ColHigh) = Val(i, ColHigh)
                            /\ \A i \in in : Val(i, ColHigh) <= got(ColHigh)
                       /\ ColLow \in probe.df.cols =>
                            /\ \E i \in in : got(ColLow) = Val(i, ColLow)
                            /\ \A i \in in : got(ColLow) <= Val(i, ColLow)
                       /\ ColVolume \in probe.df.cols =>
                            got(ColVolume) =
                              SumOf([n \in 1..Len(src) |->
                                       IF n \in in THEN src[n].c[ColVolume] ELSE Null])

\* Three one-minute bars of one bucket, in the order of the example, have
\* given 10, 13, 9, 12, 600.
C26_Witness ==
    /\ probe.op = "resample_data"
    /\ probe.timeframe = T5m
    /\ probe.df.cols = OhlcvCols
    /\ Len(probe.df.rows) = 3
    /\ \A i \in 1..3 : /\ probe.df.rows[i].ts = (i - 1) * 60
                       /\ probe.df.rows[i].c[ColOpen] = Cell(9 + i)
    /\ probe.out.rows =
         <<[ts |-> 0,
            c |-> (ColOpen :> Cell(10)) @@ (ColHigh :> Cell(13)) @@ (ColLow :> Cell(9))
                    @@ (ColClose :> Cell(12)) @@ (ColVolume :> Cell(600))]>>

\* C23: in the table align_custom_files returns, and in the one
\* align_datasets returns, is_overlap of a row is true exactly if the Close
\* columns of both symbols are in the table and both are not null in that
\* row; without one of the Close columns it is false in every row.
C23_OverlapIffBothCloses ==
    /\ (probe.op = "align_custom_files" /\ ~probe.out.raised) =>
         \A i \in 1..Len(probe.out.rows) :
            probe.out.rows[i].is_overlap <=>
                /\ probe.close_a /\ probe.close_b
                /\ probe.out.rows[i].a # Null
                /\ probe.out.rows[i].b # Null
    /\ probe.op = "align_datasets" =>
         \A i \in 1..Len(probe.out.rows) :
            probe.out.rows[i].is_overlap <=>
                /\ ColClose \in probe.out.cols_a /\ ColClose \in probe.out.cols_b
                /\ probe.out.rows[i].a[ColClose] # Null
                /\ probe.out.rows[i].b[ColClose] # Null

\* File A has no Close column: a row in which both sides have values is not
\* flagged.
C23_Witness ==
    /\ probe.op = "align_custom_files"
    /\ ~probe.close_a
    /\ probe.close_b
    /\ ~probe.out.raised
    /\ \E i \in 1..Len(probe.out.rows) :
         /\ probe.out.rows[i].a # Null
         /\ probe.out.rows[i].b # Null
         /\ ~probe.out.rows[i].is_overlap

\* C24: the preview is the full table when it has at most 100 rows; of a
\* longer table of n rows it is rows 1..50 followed by rows n-49..n, 100
\* rows in their order, none twice.
C24_PreviewHeadAndTail ==
    probe.op = "generate_preview" =>
        LET n == Len(probe.df)
        IN  IF n <= 100 THEN probe.out = probe.df
            ELSE /\ Len(probe.out) = 100
                 /\ \A k \in 1..50 : probe.out[k] = probe.df[k]
                 /\ \A k \in 51..100 : probe.out[k] = probe.df[n - 100 + k]
                 /\ \A j, k \in 1..100 : j < k => probe.out[j].row < probe.out[k].row

\* the preview of a table of 101 rows leaves out row 51
C24_Witness ==
    /\ probe.op = "generate_preview"
    /\ Len(probe.df) = 101
    /\ Len(probe.out) = 100
    /\ probe.out[50].row = 50
    /\ probe.out[51].row = 52

\* ------------------------------------------------------ claims on errors
\* C27: in each of the three strategies an error of the provider whose
\* message or whose type name holds a network keyword comes out as network
\* failure, before the tests for no data and for minute data.
C27_NetworkKeywordFirst ==
    ( /\ probe.op = "fetch_data"
      /\ probe.asset_type \in KnownAssets
      /\ probe.reply.kind = "raise"
      /\ \/ "keyword" \in ProviderExc(probe.reply).marks
         \/ TypeNameHasKeyword(ProviderExc(probe.reply).type) )
    => ~probe.out.ok /\ lastError = "network"

\* The charting strategy was answered a ConnectionError whose message holds
\* no keyword, and the error that came out is the fallback.
C27_Witness ==
    /\ probe.op = "fetch_data"
    /\ probe.asset_type = TvAsset
    /\ probe.reply.kind = "raise"
    /\ ProviderExc(probe.reply) = Exc("ConnectionError", {})
    /\ lastError = "other"

\* C28: analyze_gaps answers by the emptiness of the series, its first
\* timestamp and the requested start alone: every series with the same
\* first row, whatever its other rows, and every requested end get the
\* answer of the call.
C28_OnlyLeadingEdge ==
    probe.op = "analyze_gaps" =>
        \A requested_end \in RequestedEnds(probe.requested_start) :
            IF probe.rows = <<>>
              THEN AnalyzeGaps(<<>>, probe.requested_start, requested_end) = probe.out
              ELSE \A rest \in SeqsUpTo(GapRows(probe.requested_start), MaxRaw) :
                     AnalyzeGaps(<<probe.rows[1]>> \o rest, probe.requested_start,
                                 requested_end) = probe.out

\* A series that starts on time and ends 25 days before the requested end,
\* with a row in between, is reported complete.
C28_Witness ==
    /\ probe.op = "analyze_gaps"
    /\ Len(probe.rows) = 3
    /\ probe.rows[1].ts = probe.requested_start
    /\ probe.rows[3].ts = probe.requested_start + 5 * OneDay
    /\ probe.requested_end = probe.requested_start + 30 * OneDay
    /\ probe.out = [warn |-> FALSE, msg |-> <<"success">>]

\* ------------------------------------------------------ claims on the worker
\* the signals emitted so far are the beginning of one outcome followed by
\* finished, and success goes with a frame that has rows
SignalsInOrder ==
    /\ Len(probe.signals) <= 2
    /\ Len(probe.signals) >= 1 => probe.signals[1] \in {"success", "error"}
    /\ Len(probe.signals) = 2 => probe.signals[2] = "finished"
    /\ (Len(probe.signals) >= 1 /\ probe.signals[1] = "success") => probe.df # <<>>

\* C29: every run of the worker emits one of success and error, then
\* finished, once and last, whatever the fetch, the update, the session
\* filter and the gap analysis did; success is never emitted with an empty
\* frame.
C29_OneOutcomeThenFinished ==
    /\ [](probe.op = "worker" => SignalsInOrder)
    /\ <>[](probe.op = "worker" => probe.pc = "done" /\ Len(probe.signals) = 2)

\* The session filter has emptied the frame the update returned: the run has
\* ended with error and finished.
C29_Witness ==
    /\ probe.op = "worker"
    /\ probe.pc = "done"
    /\ probe.use_smart_update
    /\ probe.filter_lunch
    /\ probe.fault = "none"
    /\ store[FileOf(Instrument(<<"X">>, D1, probe.asset_type))].state = "ok"
    /\ probe.df = <<>>
    /\ probe.signals = <<"error", "finished">>

\* ------------------------------------------------- claims on a raising update
\* C30: an update that ends by raising leaves the store as it was: no file
\* appears for a key that had none and a record keeps its rows.
C30_RaisingUpdateKeepsStore ==
    [][(ncalls' = ncalls + 1 /\ call'.op = "update" /\ call'.raised) => store' = store]_vars

\* An update has raised after both the delta request and the full-range
\* request failed, on a record that is still there with its rows.
C30_Witness ==
    /\ call.op = "update"
    /\ call.raised
    /\ call.path = "deltafail"
    /\ Len(call.ranges) = 2
    /\ call.pre.state = "ok"
    /\ call.pre.rows # <<>>
    /\ store[call.file] = call.pre
====
